---- MODULE Spec2Model ----
(***************************************************************************)
(* A model of the AFP reader of mdneale/afp: the byte readers, the static  *)
(* syntax tables, the syntax interpreter (parse_syntax), the triplet and   *)
(* PTOCA drivers, the structured-field reader and the stream generator.    *)
(*                                                                         *)
(* Python values are modelled as follows.                                  *)
(*   bytes / list of int   a sequence of integers in 0..255                *)
(*   str                   the sequence of its code points                 *)
(*   dict                  a sequence of entries [key, val] in insertion   *)
(*                         order; the key "name-k" is [name, n |-> k] and  *)
(*                         the bare key "name" is [name, n |-> 1]          *)
(*   None / exception      the st field of an outcome record               *)
(* An outcome record has st = "ok" (a value was returned), "none" (None    *)
(* was returned), "eos" (EOSWhileReadingError), "raise" (another           *)
(* ParseError, named in err), "crash" (an exception that is not a          *)
(* ParseError, named in err) or "diverge" (the call never returns).        *)
(***************************************************************************)
EXTENDS Integers, Sequences, FiniteSets, TLC

\* ------------------------------------------------------------------------
\* Python helpers
\* ------------------------------------------------------------------------

\* data[a:b] for 0 <= a: the elements with 0-based index in a .. b-1,
\* both ends clamped to the length of data.
PySlice(data, a, b) ==
  LET hi == IF b > Len(data) THEN Len(data) ELSE b
      lo == IF a > Len(data) THEN Len(data) ELSE a
  IN  IF hi > lo THEN [k \in 1..(hi - lo) |-> data[lo + k]] ELSE <<>>

RECURSIVE Pow2(_)
Pow2(n) == IF n <= 0 THEN 1 ELSE 2 * Pow2(n - 1)

\* The big-endian value of a list of bytes (u = u << 8; u += b).
RECURSIVE BigEndian(_)
BigEndian(b) ==
  IF Len(b) = 0 THEN 0
  ELSE 256 * BigEndian(SubSeq(b, 1, Len(b) - 1)) + b[Len(b)]

\* ------------------------------------------------------------------------
\* exceptions.py
\* ------------------------------------------------------------------------

\* ParseError subclasses: class name |-> modca_code.
modca_code ==
  [kind \in {"EOFWhileReadingError", "InvalidStructuredFieldError",
             "RequiredParameterMissingError", "EOSWhileReadingError",
             "UnrecognizedStructuredFieldError", "PaddingNotImplementedError",
             "InvalidTripletError", "UnrecognizedTripletError",
             "InvalidControlSequenceError", "UnknownFunctionError",
             "RepeatingGroupError", "UnrecognizedIdentifierCodeError",
             "IncompleteParameterError"} |->
     CASE kind = "RequiredParameterMissingError"    -> 4
       [] kind = "UnrecognizedStructuredFieldError" -> 16
       [] kind = "UnrecognizedTripletError"         -> 16
       [] kind = "UnrecognizedIdentifierCodeError"  -> 64
       [] kind = "IncompleteParameterError"         -> 2
       [] OTHER                                     -> 0]

ParseErrorKinds == DOMAIN modca_code

\* A ParseError instance: its class, its message (msg names the message
\* template, arg the value formatted into it) and the two context fields,
\* None until stream() sets them.
ParseError(kind, msg, arg) ==
  [kind |-> kind, modca_code |-> modca_code[kind], msg |-> msg, arg |-> arg,
   field_no |-> "None", field_start_offset |-> "None"]

\* Outcomes of a call.
Raise(kind, msg, arg) == [st |-> "raise", err |-> ParseError(kind, msg, arg)]
Crash(exc, arg)       == [st |-> "crash", err |-> [kind |-> exc, arg |-> arg]]
Diverge               == [st |-> "diverge"]
NoneResult            == [st |-> "none"]
EOS                   == [st |-> "eos"]

\* ------------------------------------------------------------------------
\* fields.py: data types, parameter descriptors, SFI flags, preprocessors
\* ------------------------------------------------------------------------

PTYPE_CODE    == 1
PTYPE_BYTE    == 2
PTYPE_UBIN    == 3
PTYPE_SBIN    == 4
PTYPE_CHAR    == 5
PTYPE_TRIPLET == 6
PTYPE_PTOCA   == 7

PNAME_EXT_DATA    == "ExtData"
PNAME_EXT_LENGTH  == "ExtLength"
PNAME_FLAG_BYTE   == "FlagByte"
PNAME_SF_LENGTH   == "SFLength"
PNAME_SF_TYPE_ID  == "SFTypeID"
PNAME_TRIPLETS    == "Triplets"

ParameterType(offset, length, datatype, name, mandatory, preproc) ==
  [offset |-> offset, length |-> length, datatype |-> datatype,
   name |-> name, mandatory |-> mandatory, preproc |-> preproc]

\* A repeating group is a nested list inside a syntax (type(param) == list).
RepeatingGroupType(syntax) == [group |-> syntax]

IsList(param) == "group" \in DOMAIN param

StructuredFieldType(abbreviation, syntax) ==
  [abbreviation |-> abbreviation, syntax |-> syntax]

\* b & mask > 0 for a single-bit mask.
BitSet(b, mask) == (b \div mask) % 2 = 1

sfi_ext_flag(b) == BitSet(b, 128)
sfi_seg_flag(b) == BitSet(b, 32)
sfi_pad_flag(b) == BitSet(b, 8)

\* ------------------------------------------------------------------------
\* dict
\* ------------------------------------------------------------------------

Key(name) == [name |-> name, n |-> 1]

\* key in d
Has(d, name) == \E k \in DOMAIN d : d[k].key = Key(name)

\* d[key]; the caller checks Has first (a missing key is a KeyError).
Get(d, name) == d[CHOOSE k \in DOMAIN d : d[k].key = Key(name)].val

\* d[key] = val: overwrite in place, or append.
DictSet(d, key, val) ==
  IF \E k \in DOMAIN d : d[k].key = key
  THEN [k \in DOMAIN d |-> IF d[k].key = key THEN [key |-> key, val |-> val] ELSE d[k]]
  ELSE Append(d, [key |-> key, val |-> val])

EmptyDict == <<>>

\* The name counters: a function from the names used so far to their count.
EmptyCounters == [x \in {} |-> 0]

CounterSet(c, name, v) ==
  [x \in (DOMAIN c) \cup {name} |-> IF x = name THEN v ELSE c[x]]

\* ------------------------------------------------------------------------
\* fields.py: the syntax tables
\* ------------------------------------------------------------------------

SYNTAX_SFI ==
  <<
    ParameterType(0, 3, PTYPE_CODE, "SFTypeID", TRUE, "None"),
    ParameterType(3, 1, PTYPE_BYTE, "FlagByte", TRUE, "None"),
    ParameterType(4, 2, PTYPE_BYTE, "Reserved", TRUE, "None"),
    ParameterType(6, 1, PTYPE_UBIN, "ExtLength", TRUE, "_suppress_if_no_extension"),
    ParameterType(7, 0, PTYPE_BYTE, "ExtData", TRUE, "_set_extension_length") >>

SYNTAX_FIELD_RAW ==
  <<
    ParameterType(0, 0, PTYPE_BYTE, "Data", FALSE, "None") >>

SYNTAX_FIELD_BAG ==
  <<
    ParameterType(0, 8, PTYPE_CHAR, "AEGName", FALSE, "None"),
    ParameterType(8, 0, PTYPE_TRIPLET, "Triplets", FALSE, "None") >>

SYNTAX_FIELD_BDG ==
  <<
    ParameterType(0, 8, PTYPE_CHAR, "DEGName", FALSE, "None"),
    ParameterType(8, 0, PTYPE_TRIPLET, "Triplets", FALSE, "None") >>

SYNTAX_FIELD_BDI ==
  <<
    ParameterType(0, 8, PTYPE_CHAR, "IndxName", FALSE, "None"),
    ParameterType(8, 0, PTYPE_TRIPLET, "Triplets", FALSE, "None") >>

SYNTAX_FIELD_BDT ==
  <<
    ParameterType(0, 8, PTYPE_CHAR, "DocName", TRUE, "None"),
    ParameterType(8, 2, PTYPE_BYTE, "Reserved", TRUE, "None"),
    ParameterType(10, 0, PTYPE_TRIPLET, "Triplets", TRUE, "None") >>

SYNTAX_FIELD_BFG ==
  <<
    ParameterType(0, 8, PTYPE_CHAR, "FEGName", FALSE, "None") >>

SYNTAX_FIELD_BFM ==
  <<
    ParameterType(0, 8, PTYPE_CHAR, "FMName", FALSE, "None"),
    ParameterType(8, 0, PTYPE_TRIPLET, "Triplets", FALSE, "None") >>

SYNTAX_FIELD_BMM ==
  <<
    ParameterType(0, 8, PTYPE_CHAR, "MMName", TRUE, "None"),
    ParameterType(8, 0, PTYPE_TRIPLET, "Triplets", FALSE, "None") >>

SYNTAX_FIELD_BNG ==
  <<
    ParameterType(0, 8, PTYPE_CHAR, "PGrpName", TRUE, "None"),
    ParameterType(8, 0, PTYPE_TRIPLET, "Triplets", FALSE, "None") >>

SYNTAX_FIELD_BPG ==
  <<
    ParameterType(0, 8, PTYPE_CHAR, "PageName", FALSE, "None"),
    ParameterType(8, 0, PTYPE_TRIPLET, "Triplets", FALSE, "None") >>

SYNTAX_FIELD_BPT ==
  <<
    ParameterType(0, 8, PTYPE_CHAR, "PTdoName", FALSE, "None"),
    ParameterType(8, 0, PTYPE_TRIPLET, "Triplets", FALSE, "None") >>

SYNTAX_FIELD_BRG ==
  <<
    ParameterType(0, 8, PTYPE_CHAR, "RGrpName", FALSE, "None"),
    ParameterType(8, 0, PTYPE_TRIPLET, "Triplets", FALSE, "None") >>

SYNTAX_FIELD_BRS ==
  <<
    ParameterType(0, 8, PTYPE_CHAR, "RSName", TRUE, "None"),
    ParameterType(8, 2, PTYPE_BYTE, "Reserved", TRUE, "None"),
    ParameterType(10, 0, PTYPE_TRIPLET, "Triplets", TRUE, "None") >>

SYNTAX_FIELD_CTC ==
  <<
    ParameterType(0, 10, PTYPE_BYTE, "ConData", TRUE, "None") >>

SYNTAX_FIELD_EAG ==
  <<
    ParameterType(0, 8, PTYPE_CHAR, "AEGName", FALSE, "None") >>

SYNTAX_FIELD_EDG ==
  <<
    ParameterType(0, 8, PTYPE_CHAR, "DEGName", FALSE, "None") >>

SYNTAX_FIELD_EDI ==
  <<
    ParameterType(0, 8, PTYPE_CHAR, "IndxName", FALSE, "None"),
    ParameterType(8, 0, PTYPE_TRIPLET, "Triplets", FALSE, "None") >>

SYNTAX_FIELD_EDT ==
  <<
    ParameterType(0, 8, PTYPE_CHAR, "DocName", FALSE, "None"),
    ParameterType(8, 0, PTYPE_TRIPLET, "Triplets", FALSE, "None") >>

SYNTAX_FIELD_EFG ==
  <<
    ParameterType(0, 8, PTYPE_CHAR, "FEGName", FALSE, "None") >>

SYNTAX_FIELD_EFM ==
  <<
    ParameterType(0, 8, PTYPE_CHAR, "FMName", FALSE, "None") >>

SYNTAX_FIELD_EMM ==
  <<
    ParameterType(0, 8, PTYPE_CHAR, "MMName", FALSE, "None") >>

SYNTAX_FIELD_ENG ==
  <<
    ParameterType(0, 8, PTYPE_CHAR, "PGrpName", FALSE, "None"),
    ParameterType(8, 0, PTYPE_TRIPLET, "Triplets", FALSE, "None") >>

SYNTAX_FIELD_EPG ==
  <<
    ParameterType(0, 8, PTYPE_CHAR, "PageName", FALSE, "None"),
    ParameterType(8, 0, PTYPE_TRIPLET, "Triplets", FALSE, "None") >>

SYNTAX_FIELD_EPT ==
  <<
    ParameterType(0, 8, PTYPE_CHAR, "PTdoName", FALSE, "None"),
    ParameterType(8, 0, PTYPE_TRIPLET, "Triplets", FALSE, "None") >>

SYNTAX_FIELD_ERG ==
  <<
    ParameterType(0, 8, PTYPE_CHAR, "RGrpName", FALSE, "None"),
    ParameterType(8, 0, PTYPE_TRIPLET, "Triplets", FALSE, "None") >>

SYNTAX_FIELD_ERS ==
  <<
    ParameterType(0, 8, PTYPE_CHAR, "RSName", FALSE, "None") >>

SYNTAX_FIELD_IEL ==
  <<
    ParameterType(0, 0, PTYPE_TRIPLET, "Triplets", TRUE, "None") >>

SYNTAX_FIELD_IPO ==
  <<
    ParameterType(0, 8, PTYPE_CHAR, "OvlyName", TRUE, "None"),
    ParameterType(8, 3, PTYPE_SBIN, "XolOset", TRUE, "None"),
    ParameterType(11, 3, PTYPE_SBIN, "YolOset", TRUE, "None"),
    ParameterType(14, 2, PTYPE_CODE, "OvlyOrent", FALSE, "None"),
    ParameterType(16, 0, PTYPE_TRIPLET, "Triplets", FALSE, "None") >>

SYNTAX_FIELD_IPS ==
  <<
    ParameterType(0, 8, PTYPE_CHAR, "PsegName", TRUE, "None"),
    ParameterType(8, 3, PTYPE_SBIN, "XpsOset", TRUE, "None"),
    ParameterType(11, 3, PTYPE_SBIN, "YpsOset", TRUE, "None"),
    ParameterType(14, 0, PTYPE_TRIPLET, "Triplets", FALSE, "None") >>

SYNTAX_FIELD_MCC ==
  <<
    RepeatingGroupType(<<
        ParameterType(0, 2, PTYPE_UBIN, "Startnum", TRUE, "None"),
        ParameterType(2, 2, PTYPE_UBIN, "Stopnum", TRUE, "None"),
        ParameterType(4, 1, PTYPE_BYTE, "Reserved", TRUE, "None"),
        ParameterType(5, 1, PTYPE_CODE, "MMCid", TRUE, "None") >>) >>

SYNTAX_FIELD_MCF ==
  <<
    RepeatingGroupType(<<
        ParameterType(0, 2, PTYPE_UBIN, "RGLength", TRUE, "_this_group_length"),
        ParameterType(2, 0, PTYPE_TRIPLET, "Triplets", TRUE, "None") >>) >>

SYNTAX_FIELD_MCF_1 ==
  <<
    ParameterType(0, 1, PTYPE_UBIN, "RGLength", TRUE, "_next_group_length"),
    ParameterType(1, 3, PTYPE_BYTE, "Reserved", TRUE, "None"),
    RepeatingGroupType(<<
        ParameterType(0, 1, PTYPE_UBIN, "CFLid", TRUE, "None"),
        ParameterType(1, 1, PTYPE_BYTE, "Reserved", TRUE, "None"),
        ParameterType(2, 1, PTYPE_CODE, "Sectid", TRUE, "None"),
        ParameterType(3, 1, PTYPE_BYTE, "Reserved", TRUE, "None"),
        ParameterType(4, 8, PTYPE_CHAR, "CFName", TRUE, "None"),
        ParameterType(12, 8, PTYPE_CHAR, "CPName", TRUE, "None"),
        ParameterType(20, 8, PTYPE_CHAR, "FCSName", TRUE, "None"),
        ParameterType(28, 2, PTYPE_CODE, "CharRot", FALSE, "None") >>) >>

SYNTAX_FIELD_MDD ==
  <<
    ParameterType(0, 1, PTYPE_CODE, "XmBase", TRUE, "None"),
    ParameterType(1, 1, PTYPE_CODE, "YmBase", TRUE, "None"),
    ParameterType(2, 2, PTYPE_UBIN, "XmUnits", TRUE, "None"),
    ParameterType(4, 2, PTYPE_UBIN, "YmUnits", TRUE, "None"),
    ParameterType(6, 3, PTYPE_UBIN, "XmSize", TRUE, "None"),
    ParameterType(9, 3, PTYPE_UBIN, "YmSize", TRUE, "None"),
    ParameterType(12, 1, PTYPE_BYTE, "MDDFlgs", TRUE, "None"),
    ParameterType(13, 0, PTYPE_TRIPLET, "Triplets", FALSE, "None") >>

SYNTAX_FIELD_MMC ==
  <<
    ParameterType(0, 1, PTYPE_CODE, "MMCid", TRUE, "None"),
    ParameterType(1, 1, PTYPE_CODE, "Constant", TRUE, "None"),
    ParameterType(2, 0, PTYPE_BYTE, "Keywords", FALSE, "None") >>

SYNTAX_FIELD_MPO ==
  <<
    RepeatingGroupType(<<
        ParameterType(0, 2, PTYPE_UBIN, "RGLength", TRUE, "_this_group_length"),
        ParameterType(2, 0, PTYPE_TRIPLET, "Triplets", TRUE, "None") >>) >>

SYNTAX_FIELD_NOP ==
  <<
    ParameterType(0, 0, PTYPE_BYTE, "UndfData", FALSE, "None") >>

SYNTAX_FIELD_PGD ==
  <<
    ParameterType(0, 1, PTYPE_CODE, "XpgBase", TRUE, "None"),
    ParameterType(1, 1, PTYPE_CODE, "YpgBase", TRUE, "None"),
    ParameterType(2, 2, PTYPE_UBIN, "XpgUnits", TRUE, "None"),
    ParameterType(4, 2, PTYPE_UBIN, "YpgUnits", TRUE, "None"),
    ParameterType(6, 3, PTYPE_UBIN, "XpgSize", TRUE, "None"),
    ParameterType(9, 3, PTYPE_UBIN, "YpgSize", TRUE, "None"),
    ParameterType(12, 3, PTYPE_BYTE, "Reserved", TRUE, "None"),
    ParameterType(15, 0, PTYPE_TRIPLET, "Triplets", FALSE, "None") >>

SYNTAX_FIELD_PGP_1 ==
  <<
    ParameterType(0, 3, PTYPE_UBIN, "XmOset", TRUE, "None"),
    ParameterType(3, 3, PTYPE_UBIN, "YmOset", TRUE, "None") >>

SYNTAX_FIELD_PTD ==
  <<
    ParameterType(0, 1, PTYPE_CODE, "XPBASE", TRUE, "None"),
    ParameterType(1, 1, PTYPE_CODE, "YPBASE", TRUE, "None"),
    ParameterType(2, 2, PTYPE_UBIN, "XPUNITVL", TRUE, "None"),
    ParameterType(4, 2, PTYPE_UBIN, "YPUNITVL", TRUE, "None"),
    ParameterType(6, 3, PTYPE_UBIN, "XPEXTENT", TRUE, "None"),
    ParameterType(9, 3, PTYPE_UBIN, "YPEXTENT", TRUE, "None"),
    ParameterType(12, 2, PTYPE_BYTE, "TEXTFLAGS", FALSE, "None"),
    ParameterType(14, 0, PTYPE_BYTE, "TXTCONDS", FALSE, "None") >>

SYNTAX_FIELD_PTD_1 ==
  <<
    ParameterType(0, 1, PTYPE_CODE, "XptBase", TRUE, "None"),
    ParameterType(1, 1, PTYPE_CODE, "YptBase", TRUE, "None"),
    ParameterType(2, 2, PTYPE_UBIN, "XptUnits", TRUE, "None"),
    ParameterType(4, 2, PTYPE_UBIN, "YptUnits", TRUE, "None"),
    ParameterType(6, 2, PTYPE_UBIN, "XptSize", TRUE, "None"),
    ParameterType(8, 2, PTYPE_UBIN, "YptSize", TRUE, "None"),
    ParameterType(10, 2, PTYPE_BYTE, "Reserved", FALSE, "None") >>

SYNTAX_FIELD_PTX ==
  <<
    ParameterType(0, 0, PTYPE_PTOCA, "PTOCAdat", FALSE, "None") >>

SYNTAX_FIELD_TLE ==
  <<
    ParameterType(0, 0, PTYPE_TRIPLET, "Triplets", TRUE, "None") >>

AFP_SF_BAG == 13871305  \* 0xD3A8C9

AFP_SF_BDG == 13871300  \* 0xD3A8C4

AFP_SF_BDI == 13871271  \* 0xD3A8A7

AFP_SF_BDT == 13871272  \* 0xD3A8A8

AFP_SF_BFG == 13871301  \* 0xD3A8C5

AFP_SF_BFM == 13871309  \* 0xD3A8CD

AFP_SF_BMM == 13871308  \* 0xD3A8CC

AFP_SF_BNG == 13871277  \* 0xD3A8AD

AFP_SF_BPG == 13871279  \* 0xD3A8AF

AFP_SF_BPT == 13871259  \* 0xD3A89B

AFP_SF_BRG == 13871302  \* 0xD3A8C6

AFP_SF_BRS == 13871310  \* 0xD3A8CE

AFP_SF_CTC == 13871003  \* 0xD3A79B

AFP_SF_EAG == 13871561  \* 0xD3A9C9

AFP_SF_EDG == 13871556  \* 0xD3A9C4

AFP_SF_EDI == 13871527  \* 0xD3A9A7

AFP_SF_EDT == 13871528  \* 0xD3A9A8

AFP_SF_EFG == 13871557  \* 0xD3A9C5

AFP_SF_EFM == 13871565  \* 0xD3A9CD

AFP_SF_EMM == 13871564  \* 0xD3A9CC

AFP_SF_ENG == 13871533  \* 0xD3A9AD

AFP_SF_EPG == 13871535  \* 0xD3A9AF

AFP_SF_EPT == 13871515  \* 0xD3A99B

AFP_SF_ERG == 13871558  \* 0xD3A9C6

AFP_SF_ERS == 13871566  \* 0xD3A9CE

AFP_SF_IEL == 13873831  \* 0xD3B2A7

AFP_SF_IPO == 13873112  \* 0xD3AFD8

AFP_SF_IPS == 13872991  \* 0xD3AF5F

AFP_SF_MCC == 13869704  \* 0xD3A288

AFP_SF_MCF == 13872010  \* 0xD3AB8A

AFP_SF_MCF_1 == 13873546  \* 0xD3B18A

AFP_SF_MDD == 13870728  \* 0xD3A688

AFP_SF_MMC == 13870984  \* 0xD3A788

AFP_SF_MPO == 13872088  \* 0xD3ABD8

AFP_SF_NOP == 13889262  \* 0xD3EEEE

AFP_SF_PGD == 13870767  \* 0xD3A6AF

AFP_SF_PGP_1 == 13872303  \* 0xD3ACAF

AFP_SF_PTD == 13873563  \* 0xD3B19B

AFP_SF_PTD_1 == 13870747  \* 0xD3A69B

AFP_SF_PTX == 13889179  \* 0xD3EE9B

AFP_SF_TLE == 13869200  \* 0xD3A090

AFP_SF_TYPES ==
  (AFP_SF_BAG :> StructuredFieldType("BAG", SYNTAX_FIELD_BAG)) @@
  (AFP_SF_BDG :> StructuredFieldType("BDG", SYNTAX_FIELD_BDG)) @@
  (AFP_SF_BDI :> StructuredFieldType("BDI", SYNTAX_FIELD_BDI)) @@
  (AFP_SF_BDT :> StructuredFieldType("BDT", SYNTAX_FIELD_BDT)) @@
  (AFP_SF_BFG :> StructuredFieldType("BFG", SYNTAX_FIELD_BFG)) @@
  (AFP_SF_BFM :> StructuredFieldType("BFM", SYNTAX_FIELD_BFM)) @@
  (AFP_SF_BMM :> StructuredFieldType("BMM", SYNTAX_FIELD_BMM)) @@
  (AFP_SF_BNG :> StructuredFieldType("BNG", SYNTAX_FIELD_BNG)) @@
  (AFP_SF_BPG :> StructuredFieldType("BPG", SYNTAX_FIELD_BPG)) @@
  (AFP_SF_BPT :> StructuredFieldType("BPT", SYNTAX_FIELD_BPT)) @@
  (AFP_SF_BRG :> StructuredFieldType("BRG", SYNTAX_FIELD_BRG)) @@
  (AFP_SF_BRS :> StructuredFieldType("BRS", SYNTAX_FIELD_BRS)) @@
  (AFP_SF_CTC :> StructuredFieldType("CTC", SYNTAX_FIELD_CTC)) @@
  (AFP_SF_EAG :> StructuredFieldType("EAG", SYNTAX_FIELD_EAG)) @@
  (AFP_SF_EDG :> StructuredFieldType("EDG", SYNTAX_FIELD_EDG)) @@
  (AFP_SF_EDI :> StructuredFieldType("EDI", SYNTAX_FIELD_EDI)) @@
  (AFP_SF_EDT :> StructuredFieldType("EDT", SYNTAX_FIELD_EDT)) @@
  (AFP_SF_EFG :> StructuredFieldType("EFG", SYNTAX_FIELD_EFG)) @@
  (AFP_SF_EFM :> StructuredFieldType("EFM", SYNTAX_FIELD_EFM)) @@
  (AFP_SF_EMM :> StructuredFieldType("EMM", SYNTAX_FIELD_EMM)) @@
  (AFP_SF_ENG :> StructuredFieldType("ENG", SYNTAX_FIELD_ENG)) @@
  (AFP_SF_EPG :> StructuredFieldType("EPG", SYNTAX_FIELD_EPG)) @@
  (AFP_SF_EPT :> StructuredFieldType("EPT", SYNTAX_FIELD_EPT)) @@
  (AFP_SF_ERG :> StructuredFieldType("ERG", SYNTAX_FIELD_ERG)) @@
  (AFP_SF_ERS :> StructuredFieldType("ERS", SYNTAX_FIELD_ERS)) @@
  (AFP_SF_IEL :> StructuredFieldType("IEL", SYNTAX_FIELD_IEL)) @@
  (AFP_SF_IPO :> StructuredFieldType("IPO", SYNTAX_FIELD_IPO)) @@
  (AFP_SF_IPS :> StructuredFieldType("IPS", SYNTAX_FIELD_IPS)) @@
  (AFP_SF_MCC :> StructuredFieldType("MCC", SYNTAX_FIELD_MCC)) @@
  (AFP_SF_MCF :> StructuredFieldType("MCF", SYNTAX_FIELD_MCF)) @@
  (AFP_SF_MCF_1 :> StructuredFieldType("MCF-1", SYNTAX_FIELD_MCF_1)) @@
  (AFP_SF_MDD :> StructuredFieldType("MDD", SYNTAX_FIELD_MDD)) @@
  (AFP_SF_MMC :> StructuredFieldType("MMC", SYNTAX_FIELD_MMC)) @@
  (AFP_SF_MPO :> StructuredFieldType("MPO", SYNTAX_FIELD_MPO)) @@
  (AFP_SF_NOP :> StructuredFieldType("NOP", SYNTAX_FIELD_NOP)) @@
  (AFP_SF_PGD :> StructuredFieldType("PGD", SYNTAX_FIELD_PGD)) @@
  (AFP_SF_PGP_1 :> StructuredFieldType("PGP-1", SYNTAX_FIELD_PGP_1)) @@
  (AFP_SF_PTD :> StructuredFieldType("PTD", SYNTAX_FIELD_PTD)) @@
  (AFP_SF_PTD_1 :> StructuredFieldType("PTD-1", SYNTAX_FIELD_PTD_1)) @@
  (AFP_SF_PTX :> StructuredFieldType("PTX", SYNTAX_FIELD_PTX)) @@
  (AFP_SF_TLE :> StructuredFieldType("TLE", SYNTAX_FIELD_TLE))

\* ------------------------------------------------------------------------
\* triplets.py
\* ------------------------------------------------------------------------

PNAME_T_ID     == "Tid"
PNAME_T_LENGTH == "Tlength"

TripletType(syntax) == [syntax |-> syntax]

SYNTAX_TRIPLET_RAW ==
  <<
    ParameterType(0, 0, PTYPE_BYTE, "Contents", TRUE, "None") >>

SYNTAX_TRIPLET_01 ==
  <<
    ParameterType(0, 2, PTYPE_CODE, "GCSGID", TRUE, "None"),
    ParameterType(2, 2, PTYPE_CODE, "ID", TRUE, "None") >>

SYNTAX_TRIPLET_02 ==
  <<
    ParameterType(0, 1, PTYPE_CODE, "FQNType", TRUE, "None"),
    ParameterType(1, 1, PTYPE_CODE, "FQNFmt", TRUE, "None"),
    ParameterType(2, 0, PTYPE_CHAR, "FQName", TRUE, "None") >>

SYNTAX_TRIPLET_18 ==
  <<
    ParameterType(0, 1, PTYPE_CODE, "IStype", TRUE, "None"),
    ParameterType(1, 2, PTYPE_CODE, "ISid", TRUE, "None") >>

SYNTAX_TRIPLET_21 ==
  <<
    ParameterType(0, 1, PTYPE_CODE, "ObjType", TRUE, "None"),
    ParameterType(1, 7, PTYPE_CODE, "ConData", TRUE, "None") >>

SYNTAX_TRIPLET_24 ==
  <<
    ParameterType(0, 1, PTYPE_CODE, "ResType", TRUE, "None"),
    ParameterType(1, 1, PTYPE_CODE, "ResLID", TRUE, "None") >>

SYNTAX_TRIPLET_25 ==
  <<
    ParameterType(0, 1, PTYPE_CODE, "ResSNum", TRUE, "None") >>

SYNTAX_TRIPLET_26 ==
  <<
    ParameterType(0, 2, PTYPE_CODE, "CharRot", TRUE, "None") >>

SYNTAX_TRIPLET_2D ==
  <<
    ParameterType(0, 4, PTYPE_UBIN, "DirByOff", TRUE, "None"),
    ParameterType(4, 4, PTYPE_UBIN, "DirByHi", FALSE, "None") >>

SYNTAX_TRIPLET_36 ==
  <<
    ParameterType(0, 2, PTYPE_BYTE, "Reserved", TRUE, "None"),
    ParameterType(2, 0, PTYPE_CHAR, "AttVal", FALSE, "None") >>

SYNTAX_TRIPLET_56 ==
  <<
    ParameterType(0, 4, PTYPE_UBIN, "PageNum", TRUE, "None") >>

SYNTAX_TRIPLET_57 ==
  <<
    ParameterType(0, 4, PTYPE_UBIN, "ByteExt", TRUE, "None"),
    ParameterType(4, 4, PTYPE_UBIN, "BytExtHi", TRUE, "None") >>

SYNTAX_TRIPLET_58 ==
  <<
    ParameterType(0, 4, PTYPE_UBIN, "SFOff", TRUE, "None"),
    ParameterType(4, 4, PTYPE_UBIN, "SFOffHi", FALSE, "None") >>

SYNTAX_TRIPLET_59 ==
  <<
    ParameterType(0, 4, PTYPE_UBIN, "SFExt", TRUE, "None"),
    ParameterType(4, 4, PTYPE_UBIN, "SFExtHi", FALSE, "None") >>

SYNTAX_TRIPLET_62 ==
  <<
    ParameterType(0, 1, PTYPE_CODE, "StampType", TRUE, "None"),
    ParameterType(1, 1, PTYPE_CODE, "THunYear", TRUE, "None"),
    ParameterType(2, 2, PTYPE_CODE, "TenYear", TRUE, "None"),
    ParameterType(4, 3, PTYPE_CODE, "Day", TRUE, "None"),
    ParameterType(7, 2, PTYPE_CODE, "Hour", TRUE, "None"),
    ParameterType(9, 2, PTYPE_CODE, "Minute", TRUE, "None"),
    ParameterType(11, 2, PTYPE_CODE, "Second", TRUE, "None"),
    ParameterType(13, 2, PTYPE_CODE, "HundSec", TRUE, "None") >>

SYNTAX_TRIPLET_68 ==
  <<
    ParameterType(0, 1, PTYPE_CODE, "MedOrient", TRUE, "None") >>

SYNTAX_TRIPLET_80 ==
  <<
    ParameterType(0, 4, PTYPE_UBIN, "SeqNum", TRUE, "None"),
    ParameterType(4, 4, PTYPE_UBIN, "LevNum", TRUE, "None") >>

TT_01 == 1  \* 0x1

TT_02 == 2  \* 0x2

TT_18 == 24  \* 0x18

TT_21 == 33  \* 0x21

TT_24 == 36  \* 0x24

TT_25 == 37  \* 0x25

TT_26 == 38  \* 0x26

TT_2D == 45  \* 0x2D

TT_36 == 54  \* 0x36

TT_56 == 86  \* 0x56

TT_57 == 87  \* 0x57

TT_58 == 88  \* 0x58

TT_59 == 89  \* 0x59

TT_62 == 98  \* 0x62

TT_68 == 104  \* 0x68

TT_80 == 128  \* 0x80

TRIPLET_TYPES ==
  (TT_01 :> TripletType(SYNTAX_TRIPLET_01)) @@
  (TT_02 :> TripletType(SYNTAX_TRIPLET_02)) @@
  (TT_18 :> TripletType(SYNTAX_TRIPLET_18)) @@
  (TT_21 :> TripletType(SYNTAX_TRIPLET_21)) @@
  (TT_24 :> TripletType(SYNTAX_TRIPLET_24)) @@
  (TT_25 :> TripletType(SYNTAX_TRIPLET_25)) @@
  (TT_26 :> TripletType(SYNTAX_TRIPLET_26)) @@
  (TT_2D :> TripletType(SYNTAX_TRIPLET_2D)) @@
  (TT_36 :> TripletType(SYNTAX_TRIPLET_36)) @@
  (TT_56 :> TripletType(SYNTAX_TRIPLET_56)) @@
  (TT_57 :> TripletType(SYNTAX_TRIPLET_57)) @@
  (TT_58 :> TripletType(SYNTAX_TRIPLET_58)) @@
  (TT_59 :> TripletType(SYNTAX_TRIPLET_59)) @@
  (TT_62 :> TripletType(SYNTAX_TRIPLET_62)) @@
  (TT_68 :> TripletType(SYNTAX_TRIPLET_68)) @@
  (TT_80 :> TripletType(SYNTAX_TRIPLET_80))

\* ------------------------------------------------------------------------
\* functions.py
\* ------------------------------------------------------------------------

PNAME_CS_LENGTH == "LENGTH"
PNAME_CS_TYPE   == "TYPE"

Function(abbreviation, syntax) == [abbreviation |-> abbreviation, syntax |-> syntax]

SYNTAX_FUNCTION_RAW ==
  <<
    ParameterType(0, 0, PTYPE_BYTE, "DATA", TRUE, "None") >>

SYNTAX_FUNCTION_AMB ==
  <<
    ParameterType(0, 2, PTYPE_SBIN, "DSPLCMNT", TRUE, "None") >>

SYNTAX_FUNCTION_AMI ==
  <<
    ParameterType(0, 2, PTYPE_SBIN, "DSPLCMNT", TRUE, "None") >>

SYNTAX_FUNCTION_BSU ==
  <<
    ParameterType(0, 1, PTYPE_CODE, "LID", TRUE, "None") >>

SYNTAX_FUNCTION_DBR ==
  <<
    ParameterType(0, 2, PTYPE_SBIN, "RLENGTH", TRUE, "None"),
    ParameterType(2, 3, PTYPE_SBIN, "RWIDTH", FALSE, "None") >>

SYNTAX_FUNCTION_DIR ==
  <<
    ParameterType(0, 2, PTYPE_SBIN, "RLENGTH", TRUE, "None"),
    ParameterType(2, 3, PTYPE_SBIN, "RWIDTH", FALSE, "None") >>

SYNTAX_FUNCTION_ESU ==
  <<
    ParameterType(0, 1, PTYPE_CODE, "LID", TRUE, "None") >>

SYNTAX_FUNCTION_NOP ==
  <<
    ParameterType(0, 0, PTYPE_BYTE, "IGNDATA", FALSE, "None") >>

SYNTAX_FUNCTION_RMB ==
  <<
    ParameterType(0, 2, PTYPE_SBIN, "INCRMENT", TRUE, "None") >>

SYNTAX_FUNCTION_RMI ==
  <<
    ParameterType(0, 2, PTYPE_SBIN, "INCRMENT", TRUE, "None") >>

SYNTAX_FUNCTION_RPS ==
  <<
    ParameterType(0, 2, PTYPE_UBIN, "RLENGTH", TRUE, "None"),
    ParameterType(2, 0, PTYPE_CHAR, "RPTDATA", FALSE, "None") >>

SYNTAX_FUNCTION_SCFL ==
  <<
    ParameterType(0, 1, PTYPE_CODE, "LID", TRUE, "None") >>

SYNTAX_FUNCTION_STC ==
  <<
    ParameterType(0, 2, PTYPE_CODE, "FRGCOLOR", TRUE, "None"),
    ParameterType(2, 1, PTYPE_BYTE, "PRECSION", FALSE, "None") >>

SYNTAX_FUNCTION_STO ==
  <<
    ParameterType(0, 2, PTYPE_CODE, "IORNTION", TRUE, "None"),
    ParameterType(2, 2, PTYPE_CODE, "BORNTION", TRUE, "None") >>

SYNTAX_FUNCTION_SVI ==
  <<
    ParameterType(0, 2, PTYPE_SBIN, "INCRMENT", TRUE, "None") >>

SYNTAX_FUNCTION_TRN ==
  <<
    ParameterType(0, 0, PTYPE_CHAR, "TRNDATA", FALSE, "None") >>

\* FN_INFO_AMB ... FN_INFO_NOP: one field per function.
FN_INFO ==
  [AMB |-> Function("AMB", SYNTAX_FUNCTION_AMB),
   AMI |-> Function("AMI", SYNTAX_FUNCTION_AMI),
   BSU |-> Function("BSU", SYNTAX_FUNCTION_BSU),
   DBR |-> Function("DBR", SYNTAX_FUNCTION_DBR),
   DIR |-> Function("DIR", SYNTAX_FUNCTION_DIR),
   ESU |-> Function("ESU", SYNTAX_FUNCTION_ESU),
   RMB |-> Function("RMB", SYNTAX_FUNCTION_RMB),
   RMI |-> Function("RMI", SYNTAX_FUNCTION_RMI),
   RPS |-> Function("RPS", SYNTAX_FUNCTION_RPS),
   SCFL |-> Function("SCFL", SYNTAX_FUNCTION_SCFL),
   STC |-> Function("STC", SYNTAX_FUNCTION_STC),
   STO |-> Function("STO", SYNTAX_FUNCTION_STO),
   SVI |-> Function("SVI", SYNTAX_FUNCTION_SVI),
   TRN |-> Function("TRN", SYNTAX_FUNCTION_TRN),
   NOP |-> Function("NOP", SYNTAX_FUNCTION_NOP)]

FN_U_AMB == 210  \* 0xD2

FN_U_AMI == 198  \* 0xC6

FN_U_BSU == 242  \* 0xF2

FN_U_DBR == 230  \* 0xE6

FN_U_DIR == 228  \* 0xE4

FN_U_ESU == 244  \* 0xF4

FN_U_RMB == 212  \* 0xD4

FN_U_RMI == 200  \* 0xC8

FN_U_RPS == 238  \* 0xEE

FN_U_SCFL == 240  \* 0xF0

FN_U_STC == 116  \* 0x74

FN_U_STO == 246  \* 0xF6

FN_U_SVI == 196  \* 0xC4

FN_U_TRN == 218  \* 0xDA

FN_U_NOP == 248  \* 0xF8

FN_C_AMB == 211  \* 0xD3

FN_C_AMI == 199  \* 0xC7

FN_C_BSU == 243  \* 0xF3

FN_C_DBR == 231  \* 0xE7

FN_C_DIR == 229  \* 0xE5

FN_C_ESU == 245  \* 0xF5

FN_C_RMB == 213  \* 0xD5

FN_C_RMI == 201  \* 0xC9

FN_C_RPS == 239  \* 0xEF

FN_C_SCFL == 241  \* 0xF1

FN_C_STC == 117  \* 0x75

FN_C_STO == 247  \* 0xF7

FN_C_SVI == 197  \* 0xC5

FN_C_TRN == 219  \* 0xDB

FN_C_NOP == 249  \* 0xF9

FUNCTIONS ==
  (FN_U_AMB :> FN_INFO.AMB) @@
  (FN_U_AMI :> FN_INFO.AMI) @@
  (FN_U_BSU :> FN_INFO.BSU) @@
  (FN_U_DBR :> FN_INFO.DBR) @@
  (FN_U_DIR :> FN_INFO.DIR) @@
  (FN_U_ESU :> FN_INFO.ESU) @@
  (FN_U_RMB :> FN_INFO.RMB) @@
  (FN_U_RMI :> FN_INFO.RMI) @@
  (FN_U_RPS :> FN_INFO.RPS) @@
  (FN_U_SCFL :> FN_INFO.SCFL) @@
  (FN_U_STC :> FN_INFO.STC) @@
  (FN_U_STO :> FN_INFO.STO) @@
  (FN_U_SVI :> FN_INFO.SVI) @@
  (FN_U_TRN :> FN_INFO.TRN) @@
  (FN_U_NOP :> FN_INFO.NOP) @@
  (FN_C_AMB :> FN_INFO.AMB) @@
  (FN_C_AMI :> FN_INFO.AMI) @@
  (FN_C_BSU :> FN_INFO.BSU) @@
  (FN_C_DBR :> FN_INFO.DBR) @@
  (FN_C_DIR :> FN_INFO.DIR) @@
  (FN_C_ESU :> FN_INFO.ESU) @@
  (FN_C_RMB :> FN_INFO.RMB) @@
  (FN_C_RMI :> FN_INFO.RMI) @@
  (FN_C_RPS :> FN_INFO.RPS) @@
  (FN_C_SCFL :> FN_INFO.SCFL) @@
  (FN_C_STC :> FN_INFO.STC) @@
  (FN_C_STO :> FN_INFO.STO) @@
  (FN_C_SVI :> FN_INFO.SVI) @@
  (FN_C_TRN :> FN_INFO.TRN) @@
  (FN_C_NOP :> FN_INFO.NOP)

\* ------------------------------------------------------------------------
\* parser.py: constants and configuration
\* ------------------------------------------------------------------------

CARRIAGE_CONTROL_CHAR == 90  \* 0x5A
PTX_ESCAPE_SEQUENCE   == 11219  \* 0x2BD3
MODCA_CLASS_CODE      == 211  \* 0xD3

PNAME_EXCEPTIONS      == "_exceptions"
PNAME_REPEATING_GROUP == "RepeatingGroup"

ParserConfig(allow_unknown_fields, allow_unknown_triplets, allow_unknown_functions, strict) ==
  [allow_unknown_fields |-> allow_unknown_fields,
   allow_unknown_triplets |-> allow_unknown_triplets,
   allow_unknown_functions |-> allow_unknown_functions,
   strict |-> strict]

\* ------------------------------------------------------------------------
\* parser.py: reading from a file
\* ------------------------------------------------------------------------

\* f.read(n) at position pos of a file whose content is bytes, for the
\* buffered binary reader that open(name, 'rb') returns: n = -1 reads to the
\* end of the file and n < -1 is rejected with a ValueError.
FileRead(bytes, pos, n) ==
  IF n < -1 THEN Crash("ValueError", n)
  ELSE LET end == IF n < 0 \/ pos + n > Len(bytes) THEN Len(bytes) ELSE pos + n
       IN  [st |-> "ok", s |-> PySlice(bytes, pos, end), pos |-> end]

\* read_bytes that returns a short read as it is.
read_bytes_short_returned(bytes, pos, n) ==
  LET r == FileRead(bytes, pos, n) IN
  IF r.st = "crash" THEN r @@ [pos |-> pos]
  ELSE IF Len(r.s) = 0 THEN [st |-> "none", pos |-> r.pos]
  ELSE [st |-> "ok", v |-> r.s, pos |-> r.pos]

\* read_bytes(f, n): the outcome carries the position of f after the call.
read_bytes(bytes, pos, n) ==
  LET r == FileRead(bytes, pos, n) IN
  IF r.st = "crash" THEN r @@ [pos |-> pos]
  ELSE IF Len(r.s) = 0 THEN [st |-> "none", pos |-> r.pos]
  ELSE IF Len(r.s) # n THEN [st |-> "eof", pos |-> r.pos]
  ELSE [st |-> "ok", v |-> r.s, pos |-> r.pos]

read_byte(bytes, pos) ==
  LET b == read_bytes(bytes, pos, 1) IN
  IF b.st = "ok" THEN [st |-> "ok", v |-> b.v[1], pos |-> b.pos] ELSE b

read_ubin(bytes, pos, n) ==
  LET b == read_bytes(bytes, pos, n) IN
  IF b.st = "ok" THEN [st |-> "ok", v |-> BigEndian(b.v), pos |-> b.pos] ELSE b

\* ------------------------------------------------------------------------
\* parser.py: parsing from a byte buffer
\* ------------------------------------------------------------------------

RECURSIVE syntax_length_from(_, _, _)
syntax_length_from(syntax, k, length) ==
  IF k > Len(syntax) THEN length
  ELSE IF ~syntax[k].mandatory \/ syntax[k].length = 0 THEN 0
  ELSE syntax_length_from(syntax, k + 1, length + syntax[k].length)

\* syntax_length that finds no syntax of a defined length.
syntax_length_undefined(syntax) == 0

syntax_length(syntax) == syntax_length_from(syntax, 1, 0)

\* parse_bytes that hands back the bytes that are left when fewer than n
\* remain, as a bare slice would.
parse_bytes_short_slice(data, n0, offset) ==
  LET n == IF n0 = 0 THEN Len(data) - offset ELSE n0 IN
  IF offset >= Len(data) THEN NoneResult
  ELSE [st |-> "ok", v |-> PySlice(data, offset, offset + n)]

parse_bytes(data, n0, offset) ==
  LET n == IF n0 = 0 THEN Len(data) - offset ELSE n0 IN
  IF offset >= Len(data) THEN NoneResult
  ELSE IF offset + n > Len(data) THEN EOS
  ELSE [st |-> "ok", v |-> PySlice(data, offset, offset + n)]

parse_ubin(data, n, offset) ==
  LET b == parse_bytes(data, n, offset) IN
  IF b.st = "ok" THEN [st |-> "ok", v |-> BigEndian(b.v)] ELSE b

\* parse_sbin that takes the sign from bit 15 whatever the width.
parse_sbin_width_16(data, n, offset) ==
  LET i == parse_ubin(data, n, offset) IN
  IF i.st # "ok" THEN i
  ELSE IF BitSet(i.v, Pow2(15)) THEN [st |-> "ok", v |-> i.v - Pow2(16)]
  ELSE i

parse_sbin(data, n, offset) ==
  LET i == parse_ubin(data, n, offset) IN
  IF i.st # "ok" THEN i
  ELSE IF BitSet(i.v, Pow2(n * 8 - 1)) THEN [st |-> "ok", v |-> i.v - Pow2(n * 8)]
  ELSE i

parse_code(data, n, offset) == parse_ubin(data, n, offset)

EBCDIC_CP_BE ==
  <<
       0,   1,   2,   3, 156,   9, 134, 127, 151, 141, 142,  11,  12,  13,  14,  15,
      16,  17,  18,  19, 157, 133,   8, 135,  24,  25, 146, 143,  28,  29,  30,  31,
     128, 129, 130, 131, 132,  10,  23,  27, 136, 137, 138, 139, 140,   5,   6,   7,
     144, 145,  22, 147, 148, 149, 150,   4, 152, 153, 154, 155,  20,  21, 158,  26,
      32, 160, 226, 228, 224, 225, 227, 229, 231, 241,  91,  46,  60,  40,  43,  33,
      38, 233, 234, 235, 232, 237, 238, 239, 236, 223,  93,  36,  42,  41,  59,  94,
      45,  47, 194, 196, 192, 193, 195, 197, 199, 209, 166,  44,  37,  95,  62,  63,
     248, 201, 202, 203, 200, 205, 206, 207, 204,  96,  58,  35,  64,  39,  61,  34,
     216,  97,  98,  99, 100, 101, 102, 103, 104, 105, 171, 187, 240, 253, 254, 177,
     176, 106, 107, 108, 109, 110, 111, 112, 113, 114, 170, 186, 230, 184, 198, 164,
     181, 126, 115, 116, 117, 118, 119, 120, 121, 122, 161, 191, 208, 221, 222, 174,
     162, 163, 165, 183, 169, 167, 182, 188, 189, 190, 172, 124, 175, 168, 180, 215,
     123,  65,  66,  67,  68,  69,  70,  71,  72,  73, 173, 244, 246, 242, 243, 245,
     125,  74,  75,  76,  77,  78,  79,  80,  81,  82, 185, 251, 252, 249, 250, 255,
      92, 247,  83,  84,  85,  86,  87,  88,  89,  90, 178, 212, 214, 210, 211, 213,
      48,  49,  50,  51,  52,  53,  54,  55,  56,  57, 179, 219, 220, 217, 218, 159 >>

Whitespace == {9, 10, 11, 12, 13, 28, 29, 30, 31, 32, 133, 160}


\* bytes(b).decode('EBCDIC-CP-BE')
Decode(b) == [k \in DOMAIN b |-> EBCDIC_CP_BE[b[k] + 1]]

\* str.strip(): whitespace is removed at both ends.
RECURSIVE Strip(_)
Strip(s) ==
  IF Len(s) = 0 THEN s
  ELSE IF s[1] \in Whitespace THEN Strip(Tail(s))
  ELSE IF s[Len(s)] \in Whitespace THEN Strip(SubSeq(s, 1, Len(s) - 1))
  ELSE s

parse_chars(data, n, offset) ==
  LET b == parse_bytes(data, n, offset) IN
  IF b.st = "ok" THEN [st |-> "ok", v |-> Strip(Decode(b.v))] ELSE b

\* ------------------------------------------------------------------------
\* fields.py: parameter preprocessors.  The outcome is the parameter to
\* parse ("ok"), None ("none": the parameter is skipped), or the KeyError of
\* a lookup in the record parsed so far.
\* ------------------------------------------------------------------------

_next_group_length(sf, param) == [st |-> "ok", param |-> param]

_this_group_length(sf, param) == [st |-> "ok", param |-> param]

\* _suppress_if_no_extension that suppresses nothing.
_suppress_if_no_extension_keeps(sf, param) ==
  IF ~Has(sf, PNAME_FLAG_BYTE) THEN Crash("KeyError", PNAME_FLAG_BYTE)
  ELSE [st |-> "ok", param |-> param]

_suppress_if_no_extension(sf, param) ==
  IF ~Has(sf, PNAME_FLAG_BYTE) THEN Crash("KeyError", PNAME_FLAG_BYTE)
  ELSE IF sfi_ext_flag(Get(sf, PNAME_FLAG_BYTE)) THEN [st |-> "ok", param |-> param]
  ELSE NoneResult

_set_extension_length(sf, param) ==
  IF ~Has(sf, PNAME_FLAG_BYTE) THEN Crash("KeyError", PNAME_FLAG_BYTE)
  ELSE IF sfi_ext_flag(Get(sf, PNAME_FLAG_BYTE))
  THEN IF ~Has(sf, PNAME_EXT_LENGTH) THEN Crash("KeyError", PNAME_EXT_LENGTH)
       ELSE [st |-> "ok",
             param |-> ParameterType(param.offset, Get(sf, PNAME_EXT_LENGTH) - 1,
                                     param.datatype, param.name, param.mandatory,
                                     param.preproc)]
  ELSE NoneResult

\* param.preproc(result, param)
CallPreproc(sf, param) ==
  CASE param.preproc = "_next_group_length"        -> _next_group_length(sf, param)
    [] param.preproc = "_this_group_length"        -> _this_group_length(sf, param)
    [] param.preproc = "_suppress_if_no_extension" -> _suppress_if_no_extension(sf, param)
    [] param.preproc = "_set_extension_length"     -> _set_extension_length(sf, param)

\* ------------------------------------------------------------------------
\* parser.py: the syntax interpreter and the triplet and PTOCA drivers
\*
\* The value of a call that can raise is passed on as the argument of the
\* operator that models the statements after the call.
\* ------------------------------------------------------------------------

\* _add_param that stores every occurrence under the bare name.
_add_param_bare_name(name, value, result, param_appearance_counters) ==
  [result   |-> DictSet(result, Key(name), value),
   counters |-> CounterSet(param_appearance_counters, name,
                           IF Has(result, name) THEN param_appearance_counters[name] + 1
                           ELSE 1)]

_add_param(name, value, result, param_appearance_counters) ==
  IF ~Has(result, name)
  THEN [result   |-> DictSet(result, Key(name), value),
        counters |-> CounterSet(param_appearance_counters, name, 1)]
  ELSE [result   |-> DictSet(result,
                             [name |-> name, n |-> param_appearance_counters[name] + 1],
                             value),
        counters |-> CounterSet(param_appearance_counters, name,
                                param_appearance_counters[name] + 1)]

\* One entry of _exceptions: (e.modca_code, str(e)).
ExceptionEntry(e) == <<e.modca_code, [msg |-> e.msg, arg |-> e.arg]>>

_add_exception(e, result) ==
  IF ~Has(result, PNAME_EXCEPTIONS)
  THEN DictSet(result, Key(PNAME_EXCEPTIONS), <<ExceptionEntry(e)>>)
  ELSE DictSet(result, Key(PNAME_EXCEPTIONS),
               Append(Get(result, PNAME_EXCEPTIONS), ExceptionEntry(e)))

RECURSIVE parse_syntax(_, _, _, _, _)

\* triplet_parsed that advances p by the header and the contents decoded.
triplet_parsed_by_contents(r, t_length, t_id, contents, p) ==
  IF r.st # "ok" THEN r
  ELSE [st       |-> "ok",
        contents |-> contents,
        triplet  |-> DictSet(DictSet(r.result, Key(PNAME_T_LENGTH), t_length),
                             Key(PNAME_T_ID), t_id),
        p        |-> p + 2 + Len(contents)]

\* parse_triplets from the call of parse_syntax on: r is its outcome.
triplet_parsed(r, t_length, t_id, contents, p) ==
  IF r.st # "ok" THEN r
  ELSE [st       |-> "ok",
        contents |-> contents,
        triplet  |-> DictSet(DictSet(r.result, Key(PNAME_T_LENGTH), t_length),
                             Key(PNAME_T_ID), t_id),
        p        |-> p + t_length]

\* triplet_iteration with an unknown triplet let through whenever strict is
\* off.
triplet_iteration_lenient_allows(data, parser_config, p, i) ==
  LET t_length == parse_ubin(data, 1, p)
      t_id     == parse_code(data, 1, p + 1)
      contents == parse_bytes(data, t_length.v - 2, p + 2)
  IN
  IF t_id.st = "none"
  THEN Raise("InvalidTripletError", "Not enough data to parse triplet Id", i + 1)
  ELSE IF t_id.v \notin DOMAIN TRIPLET_TYPES
          /\ ~parser_config.allow_unknown_triplets /\ parser_config.strict
  THEN Raise("UnrecognizedTripletError", "Unrecognized triplet", t_id.v)
  ELSE IF contents.st \in {"none", "eos"}
  THEN Raise("InvalidTripletError", "Not enough data to parse triplet contents", i + 1)
  ELSE triplet_parsed(
         parse_syntax(contents.v,
                      IF t_id.v \in DOMAIN TRIPLET_TYPES
                      THEN TRIPLET_TYPES[t_id.v].syntax ELSE SYNTAX_TRIPLET_RAW,
                      parser_config, EmptyDict, EmptyCounters),
         t_length.v, t_id.v, contents.v, p)

\* One pass of the body of the while loop of parse_triplets, entered with
\* p < len(data): the triplet decoded and the next value of p, or the
\* exception raised.
triplet_iteration(data, parser_config, p, i) ==
  LET t_length == parse_ubin(data, 1, p)
      t_id     == parse_code(data, 1, p + 1)
      contents == parse_bytes(data, t_length.v - 2, p + 2)
  IN
  IF t_id.st = "none"
  THEN Raise("InvalidTripletError", "Not enough data to parse triplet Id", i + 1)
  ELSE IF t_id.v \notin DOMAIN TRIPLET_TYPES /\ ~parser_config.allow_unknown_triplets
  THEN Raise("UnrecognizedTripletError", "Unrecognized triplet", t_id.v)
  ELSE IF contents.st \in {"none", "eos"}
  THEN Raise("InvalidTripletError", "Not enough data to parse triplet contents", i + 1)
  ELSE triplet_parsed(
         parse_syntax(contents.v,
                      IF t_id.v \in DOMAIN TRIPLET_TYPES
                      THEN TRIPLET_TYPES[t_id.v].syntax ELSE SYNTAX_TRIPLET_RAW,
                      parser_config, EmptyDict, EmptyCounters),
         t_length.v, t_id.v, contents.v, p)

\* The while loop of parse_triplets.  it is the outcome of the pass made at
\* p.  A pass that returns with p unchanged leaves data and p as they were
\* on entry, so every later pass repeats it and the loop never exits
\* (triplet_list grows without bound).
RECURSIVE parse_triplets_loop(_, _, _, _, _)
parse_triplets_next(it, data, parser_config, p, i, triplet_list) ==
  IF it.st # "ok" THEN it
  ELSE IF it.p = p THEN Diverge
  ELSE parse_triplets_loop(data, parser_config, it.p, i + 1,
                           Append(triplet_list, it.triplet))

parse_triplets_loop(data, parser_config, p, i, triplet_list) ==
  IF ~(p < Len(data)) THEN [st |-> "ok", v |-> triplet_list, p |-> p]
  ELSE parse_triplets_next(triplet_iteration(data, parser_config, p, i),
                           data, parser_config, p, i, triplet_list)

parse_triplets(data, parser_config, offset) ==
  parse_triplets_loop(data, parser_config, offset, 0, <<>>)

unchained_function(function) == function % 2 = 0

\* chained_function that finds no function chained.
chained_function_never(function) == FALSE

chained_function(function) == ~unchained_function(function)

\* parse_ptoca from the call of parse_syntax on: r is its outcome, p the
\* position of the LENGTH byte.
ctrl_sequence_parsed(r, length, function, function_data, p, chained) ==
  IF r.st # "ok" THEN r
  ELSE [st            |-> "ok",
        escaped       |-> ~chained,
        start         |-> p,
        function_data |-> function_data,
        ctrl_sequence |-> DictSet(DictSet(r.result, Key(PNAME_CS_LENGTH), length),
                                  Key(PNAME_CS_TYPE), function),
        p             |-> p + 2 + (length - 2),
        chained       |-> chained_function(function)]

\* parse_ptoca after the escape sequence: p is the position of the LENGTH
\* byte.
ctrl_sequence_at(data, parser_config, p, i, chained) ==
  LET length        == parse_ubin(data, 1, p)
      function      == parse_ubin(data, 1, p + 1)
      function_data == parse_bytes(data, length.v - 2, p + 2)
  IN
  IF length.st = "none"
  THEN Raise("InvalidControlSequenceError",
             "Not enough data to parse control sequence length", i + 1)
  ELSE IF function.st = "none"
  THEN Raise("InvalidControlSequenceError",
             "Not enough data to parse control sequence function", i + 1)
  ELSE IF function.v \notin DOMAIN FUNCTIONS /\ ~parser_config.allow_unknown_functions
  THEN Raise("UnknownFunctionError", "Unknown function", function.v)
  ELSE IF function_data.st = "eos" \/ (function_data.st = "none" /\ length.v - 2 > 0)
  THEN Raise("InvalidControlSequenceError",
             "Not enough data to parse control sequence function data", i + 1)
  ELSE ctrl_sequence_parsed(
         parse_syntax(IF function_data.st = "none" THEN <<>> ELSE function_data.v,
                      IF function.v \in DOMAIN FUNCTIONS
                      THEN FUNCTIONS[function.v].syntax ELSE SYNTAX_FUNCTION_RAW,
                      parser_config, EmptyDict, EmptyCounters),
         length.v, function.v,
         IF function_data.st = "none" THEN <<>> ELSE function_data.v,
         p, chained)

\* ptoca_iteration that asks for no escape sequence before a control
\* sequence that does not start with one.
ptoca_iteration_escape_optional(data, parser_config, p, i, chained) ==
  IF chained THEN ctrl_sequence_at(data, parser_config, p, i, chained)
  ELSE IF parse_ubin(data, 2, p).st = "eos"
  THEN Raise("InvalidControlSequenceError",
             "Not enough data to parse control sequence escape sequence", i + 1)
  ELSE IF parse_ubin(data, 2, p).v # PTX_ESCAPE_SEQUENCE
  THEN ctrl_sequence_at(data, parser_config, p, i, chained)
  ELSE ctrl_sequence_at(data, parser_config, p + 2, i, chained)

\* ptoca_iteration that asks for the escape sequence before every control
\* sequence, chained or not.
ptoca_iteration_escape_always(data, parser_config, p, i, chained) ==
  IF parse_ubin(data, 2, p).st = "eos"
  THEN Raise("InvalidControlSequenceError",
             "Not enough data to parse control sequence escape sequence", i + 1)
  ELSE IF parse_ubin(data, 2, p).v # PTX_ESCAPE_SEQUENCE
  THEN Raise("InvalidControlSequenceError",
             "Missing escape sequence before control sequence", i + 1)
  ELSE ctrl_sequence_at(data, parser_config, p + 2, i, chained)

\* One pass of the body of the while loop of parse_ptoca, entered with
\* p < len(data).
ptoca_iteration(data, parser_config, p, i, chained) ==
  IF chained THEN ctrl_sequence_at(data, parser_config, p, i, chained)
  ELSE IF parse_ubin(data, 2, p).st = "eos"
  THEN Raise("InvalidControlSequenceError",
             "Not enough data to parse control sequence escape sequence", i + 1)
  ELSE IF parse_ubin(data, 2, p).v # PTX_ESCAPE_SEQUENCE
  THEN Raise("InvalidControlSequenceError",
             "Missing escape sequence before control sequence", i + 1)
  ELSE ctrl_sequence_at(data, parser_config, p + 2, i, chained)

\* The while loop of parse_ptoca.  it is the outcome of the pass made at p.
\* A pass that returns with p and chained unchanged repeats for ever.
RECURSIVE parse_ptoca_loop(_, _, _, _, _, _)
parse_ptoca_next(it, data, parser_config, p, i, chained, ctrl_sequences) ==
  IF it.st # "ok" THEN it
  ELSE IF it.p = p /\ it.chained = chained THEN Diverge
  ELSE parse_ptoca_loop(data, parser_config, it.p, i + 1, it.chained,
                        Append(ctrl_sequences, it.ctrl_sequence))

parse_ptoca_loop(data, parser_config, p, i, chained, ctrl_sequences) ==
  IF ~(p < Len(data))
  THEN IF chained
       THEN Raise("InvalidControlSequenceError", "Final function is chained", "None")
       ELSE [st |-> "ok", v |-> ctrl_sequences, p |-> p]
  ELSE parse_ptoca_next(ptoca_iteration(data, parser_config, p, i, chained),
                        data, parser_config, p, i, chained, ctrl_sequences)

parse_ptoca(data, parser_config, offset) ==
  parse_ptoca_loop(data, parser_config, offset, 0, FALSE, <<>>)

\* value[0] of a one-byte BYTE parameter.
SingleByte(value, length) ==
  IF value.st = "ok" /\ length = 1
  THEN [st |-> "ok", v |-> value.v[1], list |-> FALSE]
  ELSE value @@ [list |-> TRUE]

\* The value of a regular parameter: the dispatch on param.datatype.
\* list tells whether the value is a Python list.
parse_value(data, param, parser_config) ==
  CASE param.datatype = PTYPE_CODE ->
         parse_code(data, param.length, param.offset) @@ [list |-> FALSE]
    [] param.datatype = PTYPE_BYTE ->
         SingleByte(parse_bytes(data, param.length, param.offset), param.length)
    [] param.datatype = PTYPE_UBIN ->
         parse_ubin(data, param.length, param.offset) @@ [list |-> FALSE]
    [] param.datatype = PTYPE_SBIN ->
         parse_sbin(data, param.length, param.offset) @@ [list |-> FALSE]
    [] param.datatype = PTYPE_CHAR ->
         parse_chars(data, param.length, param.offset) @@ [list |-> FALSE]
    [] param.datatype = PTYPE_TRIPLET ->
         parse_triplets(data, parser_config, param.offset) @@ [list |-> TRUE]
    [] param.datatype = PTYPE_PTOCA ->
         parse_ptoca(data, parser_config, param.offset) @@ [list |-> TRUE]

\* EOSConverted that takes every parameter for a mandatory one.
EOSConverted_all_mandatory(param) ==
  ParseError("RequiredParameterMissingError", "Required parameter missing", param.name)

\* The exception parse_syntax makes of an EOSWhileReadingError.
EOSConverted(param) ==
  IF param.mandatory
  THEN ParseError("RequiredParameterMissingError", "Required parameter missing", param.name)
  ELSE ParseError("IncompleteParameterError", "Not enough data to parse parameter", param.name)

\* The return value of parse_syntax: (result, len(data)).
SyntaxReturn(W) ==
  [st |-> "ok", result |-> W.result, counters |-> W.counters,
   bytes_processed |-> Len(W.data)]

\* The while loop over one repeating group: the list of group records and
\* the offset at which the loop stopped.  nested is the outcome of the
\* parse_syntax call on the group at repeating_group_offset;
\* next_group_length is -1 for None.
RECURSIVE repeating_group_loop(_, _, _, _, _, _)
repeating_group_next(nested, data, param, parser_config, next_group_length, repeating_group_offset, value) ==
  IF nested.st # "ok" THEN nested
  ELSE repeating_group_loop(data, param, parser_config, next_group_length,
                            repeating_group_offset + nested.bytes_processed,
                            Append(value, nested.result))

repeating_group_loop(data, param, parser_config, next_group_length, repeating_group_offset, value) ==
  IF ~(repeating_group_offset < Len(data))
  THEN [st |-> "ok", v |-> value, offset |-> repeating_group_offset]
  ELSE IF next_group_length = -1 THEN Crash("TypeError", "next_group_length")
  ELSE IF next_group_length # 0 /\ repeating_group_offset + next_group_length > Len(data)
  THEN Raise("RepeatingGroupError", "Repeating group length longer than available data", "None")
  ELSE repeating_group_next(
         parse_syntax(IF next_group_length # 0
                      THEN PySlice(data, repeating_group_offset,
                                   repeating_group_offset + next_group_length)
                      ELSE PySlice(data, repeating_group_offset, Len(data)),
                      param, parser_config, EmptyDict, EmptyCounters),
         data, param, parser_config, next_group_length, repeating_group_offset, value)

\* The for loop of parse_syntax from element k of the syntax on.  W holds
\* the variables of the call: data, result, counters (the
\* param_appearance_counters), next_group_length, next_field_offset.
RECURSIVE parse_syntax_from(_, _, _, _)

\* repeating_group_done that keeps next_group_length as it was.
repeating_group_done_length_kept(g, syntax, parser_config, W, k) ==
  IF g.st # "ok" THEN g
  ELSE IF Len(g.v) > 0
  THEN parse_syntax_from(
         syntax, parser_config,
         [W EXCEPT !.result = _add_param(PNAME_REPEATING_GROUP, g.v, W.result, W.counters).result,
                   !.counters = _add_param(PNAME_REPEATING_GROUP, g.v, W.result, W.counters).counters,
                   !.next_field_offset = g.offset],
         k + 1)
  ELSE parse_syntax_from(syntax, parser_config, [W EXCEPT !.next_field_offset = g.offset],
                         k + 1)

\* The end of the repeating-group branch: g is the outcome of the loop.
repeating_group_done(g, syntax, parser_config, W, k) ==
  IF g.st # "ok" THEN g
  ELSE IF Len(g.v) > 0
  THEN parse_syntax_from(
         syntax, parser_config,
         [W EXCEPT !.result = _add_param(PNAME_REPEATING_GROUP, g.v, W.result, W.counters).result,
                   !.counters = _add_param(PNAME_REPEATING_GROUP, g.v, W.result, W.counters).counters,
                   !.next_group_length = 0,
                   !.next_field_offset = g.offset],
         k + 1)
  ELSE parse_syntax_from(syntax, parser_config,
                         [W EXCEPT !.next_group_length = 0, !.next_field_offset = g.offset],
                         k + 1)

\* AfterMarkers that leaves data whole under _this_group_length.
AfterMarkers_data_whole(W, param, value, marker) ==
  [W EXCEPT
     !.next_group_length =
        IF marker = "_next_group_length" THEN (IF value.st = "ok" THEN value.v ELSE -1)
        ELSE @,
     !.next_field_offset = param.offset + param.length]

\* The variables of the call once the value of param has been parsed and
\* the two group-length markers have been acted upon.
AfterMarkers(W, param, value, marker) ==
  [W EXCEPT
     !.next_group_length =
        IF marker = "_next_group_length" THEN (IF value.st = "ok" THEN value.v ELSE -1)
        ELSE @,
     !.data = IF marker = "_this_group_length" THEN PySlice(@, 0, value.v) ELSE @,
     !.next_field_offset = param.offset + param.length]

RequiredParameterMissing(param) ==
  ParseError("RequiredParameterMissingError", "Required parameter missing", param.name)

\* parameter_stored that lets a mandatory parameter be absent.
parameter_stored_optional(value, syntax, parser_config, W1, k, param) ==
  IF value.st = "ok" /\ (~value.list \/ Len(value.v) # 0)
  THEN parse_syntax_from(
         syntax, parser_config,
         [W1 EXCEPT !.result = _add_param(param.name, value.v, W1.result, W1.counters).result,
                    !.counters = _add_param(param.name, value.v, W1.result, W1.counters).counters],
         k + 1)
  ELSE parse_syntax_from(syntax, parser_config, W1, k + 1)

\* The regular-parameter branch once the value has been parsed and the
\* markers acted upon: W1 holds the variables of the call.
parameter_stored(value, syntax, parser_config, W1, k, param) ==
  IF value.st = "ok" /\ (~value.list \/ Len(value.v) # 0)
  THEN parse_syntax_from(
         syntax, parser_config,
         [W1 EXCEPT !.result = _add_param(param.name, value.v, W1.result, W1.counters).result,
                    !.counters = _add_param(param.name, value.v, W1.result, W1.counters).counters],
         k + 1)
  ELSE IF param.mandatory
  THEN IF parser_config.strict
       THEN [st |-> "raise", err |-> RequiredParameterMissing(param)]
       ELSE parse_syntax_from(
              syntax, parser_config,
              [W1 EXCEPT !.result = _add_exception(RequiredParameterMissing(param), W1.result)],
              k + 1)
  ELSE parse_syntax_from(syntax, parser_config, W1, k + 1)

\* parameter_parsed that records an EOSWhileReadingError in _exceptions under
\* strict parsing too.
parameter_parsed_eos_recorded(value, syntax, parser_config, W, k, param, marker) ==
  IF value.st = "eos"
  THEN SyntaxReturn([W EXCEPT !.result = _add_exception(EOSConverted(param), W.result)])
  ELSE IF value.st \in {"raise", "crash", "diverge"} THEN value
  ELSE IF marker \in {"_next_group_length", "_this_group_length"}
          /\ value.st = "ok" /\ value.v = 0
  THEN Raise("RepeatingGroupError", "Repeating group length cannot be zero", "None")
  ELSE IF marker = "_this_group_length" /\ value.st = "none"
  THEN Crash("TypeError", "value > len(data)")
  ELSE IF marker = "_this_group_length" /\ value.v > Len(W.data)
  THEN Raise("RepeatingGroupError", "Repeating group length longer than available data", "None")
  ELSE parameter_stored(value, syntax, parser_config,
                        AfterMarkers(W, param, value, marker), k, param)

\* The regular-parameter branch from the parsing of the value on: value is
\* the outcome of the parse_* call, marker the preprocessor of a UBIN.
parameter_parsed(value, syntax, parser_config, W, k, param, marker) ==
  IF value.st = "eos"
  THEN IF parser_config.strict THEN [st |-> "raise", err |-> EOSConverted(param)]
       ELSE SyntaxReturn([W EXCEPT !.result = _add_exception(EOSConverted(param), W.result)])
  ELSE IF value.st \in {"raise", "crash", "diverge"} THEN value
  ELSE IF marker \in {"_next_group_length", "_this_group_length"}
          /\ value.st = "ok" /\ value.v = 0
  THEN Raise("RepeatingGroupError", "Repeating group length cannot be zero", "None")
  ELSE IF marker = "_this_group_length" /\ value.st = "none"
  THEN Crash("TypeError", "value > len(data)")
  ELSE IF marker = "_this_group_length" /\ value.v > Len(W.data)
  THEN Raise("RepeatingGroupError", "Repeating group length longer than available data", "None")
  ELSE parameter_stored(value, syntax, parser_config,
                        AfterMarkers(W, param, value, marker), k, param)

\* The regular-parameter branch after the preprocessor: pre is its outcome.
parameter_preprocessed(pre, syntax, parser_config, W, k) ==
  IF pre.st = "crash" THEN pre
  ELSE IF pre.st = "none" THEN parse_syntax_from(syntax, parser_config, W, k + 1)
  ELSE parameter_parsed(parse_value(W.data, pre.param, parser_config),
                        syntax, parser_config, W, k, pre.param,
                        IF pre.param.datatype = PTYPE_UBIN THEN pre.param.preproc
                        ELSE "None")

parse_syntax_from(syntax, parser_config, W, k) ==
  IF k > Len(syntax) THEN SyntaxReturn(W)
  ELSE IF IsList(syntax[k])
  THEN repeating_group_done(
         repeating_group_loop(W.data, syntax[k].group, parser_config,
                              IF W.next_group_length = 0
                              THEN syntax_length(syntax[k].group)
                              ELSE W.next_group_length,
                              W.next_field_offset, <<>>),
         syntax, parser_config, W, k)
  ELSE parameter_preprocessed(
         IF syntax[k].preproc # "None" THEN CallPreproc(W.result, syntax[k])
         ELSE [st |-> "ok", param |-> syntax[k]],
         syntax, parser_config, W, k)

\* parse_syntax(data, syntax, parser_config, result, param_appearance_counters);
\* the caller passes EmptyDict and EmptyCounters for None, and <<>> for a
\* data of None.
parse_syntax(data, syntax, parser_config, result, param_appearance_counters) ==
  parse_syntax_from(syntax, parser_config,
                    [data |-> data, result |-> result,
                     counters |-> param_appearance_counters,
                     next_group_length |-> 0, next_field_offset |-> 0],
                    1)

\* ------------------------------------------------------------------------
\* parser.py: the structured-field reader
\* ------------------------------------------------------------------------

\* The end of read_structured_field: body is the outcome of the parse_syntax
\* call on the field data.
field_data_parsed(body, pos, field_data_start) ==
  IF body.st # "ok" THEN body @@ [pos |-> pos]
  ELSE [st |-> "ok", sf |-> body.result, pos |-> pos,
        field_data_start |-> field_data_start]

\* field_data_start
FieldDataStart(sf) ==
  6 + (IF sfi_ext_flag(Get(sf, PNAME_FLAG_BYTE)) THEN Get(sf, PNAME_EXT_LENGTH) ELSE 0)

\* read_structured_field once sf[SFLength] has been set: the checks of the
\* introducer, then the parsing of the field data into sf.
introducer_checked(sf, counters, data, parser_config, pos) ==
  IF ~Has(sf, PNAME_SF_TYPE_ID) THEN Crash("KeyError", PNAME_SF_TYPE_ID) @@ [pos |-> pos]
  ELSE IF (Get(sf, PNAME_SF_TYPE_ID) \div 65536) % 256 # MODCA_CLASS_CODE
  THEN Raise("UnrecognizedIdentifierCodeError", "Unrecognized class code",
             Get(sf, PNAME_SF_TYPE_ID)) @@ [pos |-> pos]
  ELSE IF ~Has(sf, PNAME_FLAG_BYTE) THEN Crash("KeyError", PNAME_FLAG_BYTE) @@ [pos |-> pos]
  ELSE IF sfi_pad_flag(Get(sf, PNAME_FLAG_BYTE))
  THEN Raise("PaddingNotImplementedError", "Structured Field padding is not supported",
             "None") @@ [pos |-> pos]
  ELSE IF Get(sf, PNAME_SF_TYPE_ID) \notin DOMAIN AFP_SF_TYPES
          /\ ~parser_config.allow_unknown_fields
  THEN Raise("UnrecognizedStructuredFieldError", "Unrecognized structured field",
             Get(sf, PNAME_SF_TYPE_ID)) @@ [pos |-> pos]
  \* the arguments of the debug message: sf[ExtLength], sf[ExtData]
  ELSE IF sfi_ext_flag(Get(sf, PNAME_FLAG_BYTE)) /\ ~Has(sf, PNAME_EXT_LENGTH)
  THEN Crash("KeyError", PNAME_EXT_LENGTH) @@ [pos |-> pos]
  ELSE IF sfi_ext_flag(Get(sf, PNAME_FLAG_BYTE)) /\ ~Has(sf, PNAME_EXT_DATA)
  THEN Crash("KeyError", PNAME_EXT_DATA) @@ [pos |-> pos]
  ELSE field_data_parsed(
         parse_syntax(PySlice(data, FieldDataStart(sf), Len(data)),
                      IF Get(sf, PNAME_SF_TYPE_ID) \in DOMAIN AFP_SF_TYPES
                      THEN AFP_SF_TYPES[Get(sf, PNAME_SF_TYPE_ID)].syntax
                      ELSE SYNTAX_FIELD_RAW,
                      parser_config, sf, counters),
         pos, FieldDataStart(sf))

\* introducer_parsed with SFLength set to the number of bytes read for the body.
introducer_parsed_body_length(sfi, data, sf_length, parser_config, pos) ==
  IF sfi.st # "ok" THEN sfi @@ [pos |-> pos]
  ELSE introducer_checked(DictSet(sfi.result, Key(PNAME_SF_LENGTH), Len(data)),
                          sfi.counters, data, parser_config, pos)

\* read_structured_field from the parsing of the introducer on: sfi is the
\* outcome of the parse_syntax call with SYNTAX_SFI.
introducer_parsed(sfi, data, sf_length, parser_config, pos) ==
  IF sfi.st # "ok" THEN sfi @@ [pos |-> pos]
  ELSE introducer_checked(DictSet(sfi.result, Key(PNAME_SF_LENGTH), sf_length),
                          sfi.counters, data, parser_config, pos)

\* read_structured_field from the reading of the body on: data is the
\* outcome of read_bytes(f, sf_length - 2).
body_read(data, sf_length, parser_config) ==
  IF data.st = "crash" THEN data
  ELSE IF data.st = "none"
  THEN Raise("InvalidStructuredFieldError", "Structured field incorrect length", "None")
       @@ [pos |-> data.pos]
  ELSE IF data.st = "eof"
  THEN Raise("InvalidStructuredFieldError", "Not enough data to read structured field",
             "None") @@ [pos |-> data.pos]
  ELSE introducer_parsed(
         parse_syntax(data.v, SYNTAX_SFI, parser_config, EmptyDict, EmptyCounters),
         data.v, sf_length, parser_config, data.pos)

\* read_structured_field from the reading of the length on: sf_length is the
\* outcome of read_ubin(f, 2).
length_read(sf_length, bytes, parser_config) ==
  IF sf_length.st = "none"
  THEN Raise("InvalidStructuredFieldError", "Missing structured field length", "None")
       @@ [pos |-> sf_length.pos]
  ELSE IF sf_length.st = "eof"
  THEN Raise("InvalidStructuredFieldError",
             "Not enough data to read structured field length", "None")
       @@ [pos |-> sf_length.pos]
  ELSE body_read(read_bytes(bytes, sf_length.pos, sf_length.v - 2),
                 sf_length.v, parser_config)

\* read_structured_field(f, parser_config) with f at position pos: the
\* record ("ok"), None at the end of the file ("none"), or the exception;
\* pos is the position of f after the call.
read_structured_field(bytes, pos, parser_config) ==
  IF read_byte(bytes, pos).st = "none" THEN [st |-> "none", pos |-> pos]
  ELSE IF read_byte(bytes, pos).v # CARRIAGE_CONTROL_CHAR
  THEN Raise("InvalidStructuredFieldError", "Missing carriage control character", "None")
       @@ [pos |-> pos + 1]
  ELSE length_read(read_ubin(bytes, pos + 1, 2), bytes, parser_config)

\* ------------------------------------------------------------------------
\* The inputs: files and configurations
\* ------------------------------------------------------------------------

\* The largest SFLength written in a framing case.
MaxDeclared == 9
\* The number of triplets or control sequences in a buffer handed to
\* parse_triplets or parse_ptoca.
MaxChunks == 2

U16(n) == <<n \div 256, n % 256>>
U24(n) == <<n \div 65536, (n \div 256) % 256, n % 256>>

\* The six bytes of a Structured Field Introducer without extension.
SFIBytes(type_id, flag_byte) == U24(type_id) \o <<flag_byte, 0, 0>>

\* A structured field on the wire: 0x5A, SFLength, body.
Frame(body) == <<CARRIAGE_CONTROL_CHAR>> \o U16(Len(body) + 2) \o body

RECURSIVE Concats(_, _)
Concats(chunks, n) ==
  IF n = 0 THEN {<<>>}
  ELSE LET S == Concats(chunks, n - 1) IN S \cup {s \o c : s \in S, c \in chunks}

\* A type ID that is in no table, and one of another class.
AFP_SF_UNKNOWN  == MODCA_CLASS_CODE * 65536 + 65535  \* 0xD3FFFF
AFP_SF_BADCLASS == 160 * 256 + 144               \* 0x00A090

TripletChunks ==
  { <<3, 37, 1>>,       \* 0x25 Resource Section Number, ResSNum = 1
    <<3, 0, 7>>,        \* an unknown triplet with one byte of contents
    <<2, 0>>,           \* Tlength = 2, unknown Tid
    <<2, 37>>,          \* Tlength = 2, known Tid
    <<0, 37, 1>>,       \* Tlength = 0
    <<1, 37>>,          \* Tlength = 1
    <<4, 37, 1>>,       \* Tlength beyond the data
    <<3>>,              \* a header cut short
    <<3, 1, 0>>,        \* 0x01 whose two-byte GCSGID is cut short
    <<6, 45, 0, 0, 0, 9>> } \* 0x2D Object Byte Offset without DirByHi

PtocaChunks ==
  { <<43, 211, 3, 218, 193>>,  \* escape, TRN (unchained), one byte
    <<43, 211, 3, 219, 193>>,  \* escape, TRN (chained), one byte
    <<3, 218, 194>>,           \* TRN (unchained) without escape
    <<3, 219, 194>>,           \* TRN (chained) without escape
    <<43, 211, 2, 0>>,         \* an unknown function
    <<43, 211, 2, 210>>,       \* AMB without its DSPLCMNT
    <<43, 211, 3, 210, 1>>,    \* AMB with a DSPLCMNT cut short
    <<0, 219>>,                \* LENGTH = 0, chained
    <<43, 211, 5, 218>>,       \* LENGTH beyond the data
    <<43>> }                   \* an escape cut short

\* Two TRN control sequences after one escape sequence, "ABC" and "D": both
\* unchained, and the first chained.
PTX_TWO_UNCHAINED  == <<43, 211, 5, 218, 193, 194, 195, 3, 218, 196>>
PTX_CHAINED_FIRST  == <<43, 211, 5, 219, 193, 194, 195, 3, 218, 196>>
\* Three TRN control sequences: chained, then unchained with no escape
\* sequence, then unchained after a second escape sequence.
PTX_THREE_SEQUENCES == <<43, 211, 3, 219, 193, 3, 218, 194, 43, 211, 3, 218, 195>>
\* One DBR (RLENGTH mandatory, RWIDTH optional) and one STO (IORNTION and
\* BORNTION mandatory) control sequence, each with its data cut at every
\* length from none to whole.
DBR_DATA == <<0, 5, 0, 0, 7>>
STO_DATA == <<45, 0, 135, 0>>
PtocaCutShort ==
  {<<43, 211, 2 + k, FN_U_DBR>> \o SubSeq(DBR_DATA, 1, k) : k \in 0..Len(DBR_DATA)}
    \cup {<<43, 211, 2 + k, FN_U_STO>> \o SubSeq(STO_DATA, 1, k) : k \in 0..Len(STO_DATA)}
PtocaExamples ==
  {PTX_TWO_UNCHAINED, PTX_CHAINED_FIRST, PTX_THREE_SEQUENCES} \cup PtocaCutShort

MccChunks ==
  { <<0, 1, 0, 2, 0, 5>>, <<0, 3, 0, 4, 0, 6>>, <<0, 1, 0>> }

McfChunks ==
  { <<0, 5, 3, 37, 1>>,   \* RGLength = 5, one triplet
    <<0, 2>>,             \* RGLength = 2, no triplet
    <<0, 0, 3>>,          \* RGLength = 0
    <<0, 9, 3, 37, 1>>,   \* RGLength beyond the data
    <<0>>,                \* RGLength cut short
    <<0, 5, 3, 0, 1>> }   \* an unknown triplet in the group

Mcf1Chunks ==
  { <<2, 0, 0, 0, 1, 2, 3, 4>>,  \* RGLength = 2, two groups
    <<0, 0, 0, 0, 1, 2>>,        \* RGLength = 0
    <<3, 0, 0, 0, 1, 2, 3, 4>>,  \* RGLength = 3, a group cut short
    <<2, 0>>,                    \* Reserved cut short
    <<30, 0, 0, 0>> }

BdtChunks ==
  { <<196, 214, 195, 78, 193, 212, 197, 0, 0>>,      \* DocName, Reserved cut short
    <<196, 214, 195, 64, 64, 64, 64, 64, 0, 0>>,     \* DocName, Reserved, no triplet
    <<196, 214, 195, 64, 64, 64, 64, 64, 7, 9>>,     \* Reserved = 07 09
    <<196, 214, 195, 64, 64, 64, 64, 64, 0, 0, 3, 37, 1>>,
    <<196, 214, 195>> }

\* Bodies that vary the introducer: class, type, flags, extension.
HeaderBodies ==
  { SFIBytes(t, fl) \o x :
      t  \in {AFP_SF_NOP, AFP_SF_UNKNOWN, AFP_SF_BADCLASS},
      fl \in {0, 8, 128, 136},
      x  \in {<<>>, <<0>>, <<1>>, <<1, 9>>, <<2, 7>>, <<3, 7>>} }

\* Bodies that vary the data after the introducer.
DataBodies ==
       {SFIBytes(AFP_SF_TLE, 0)   \o x : x \in Concats(TripletChunks, 1)}
  \cup {SFIBytes(AFP_SF_PTX, 0)   \o x : x \in Concats(PtocaChunks, 1)}
  \cup {SFIBytes(AFP_SF_MCC, 0)   \o x : x \in Concats(MccChunks, 1)}
  \cup {SFIBytes(AFP_SF_MCF, 0)   \o x : x \in Concats(McfChunks, 1)}
  \cup {SFIBytes(AFP_SF_MCF_1, 0) \o x : x \in Mcf1Chunks}
  \cup {SFIBytes(AFP_SF_BDT, 0)   \o x : x \in BdtChunks}
  \cup {SFIBytes(AFP_SF_UNKNOWN, 0) \o x : x \in {<<>>, <<1, 2>>}}
  \cup {PySlice(SFIBytes(AFP_SF_BADCLASS, 0), 0, n) : n \in {1, 3}}
  \cup {SFIBytes(t, 0) : t \in DOMAIN AFP_SF_TYPES}
  \cup {SFIBytes(AFP_SF_TLE, 128) \o x : x \in {<<2, 7, 3, 37, 1>>, <<1, 3, 37, 1>>}}

\* The bytes that follow the length in a framing case.
Filler == SFIBytes(AFP_SF_NOP, 0) \o <<1, 2>>

\* Files that vary the framing of one field: the framing byte, the length
\* written and the number of bytes that follow it.
FramingFiles ==
       { <<CARRIAGE_CONTROL_CHAR>> \o U16(l) \o PySlice(Filler, 0, n) :
           l \in 0..MaxDeclared, n \in 0..Len(Filler) }
  \cup { <<>>, <<CARRIAGE_CONTROL_CHAR>>, <<CARRIAGE_CONTROL_CHAR, 0>>, <<0>>,
         <<0, 0, 8>> \o Filler }

\* What precedes the last field of a file: nothing, or a NOP and a TLE with
\* one triplet.
Prefixes ==
  { <<>>,
    Frame(SFIBytes(AFP_SF_NOP, 0) \o <<1>>) \o Frame(SFIBytes(AFP_SF_TLE, 0) \o <<3, 37, 1>>) }

\* A field of the unknown type 0xD3FFFF that is six introducer bytes: with
\* an SFLength of 9, one more than the bytes that follow it allow, and with
\* the SFLength of 8 that frames it.
UNKNOWN_FIELD_LENGTH_9 == <<90, 0, 9, 211, 255, 255, 0, 0, 0>>
UNKNOWN_FIELD_LENGTH_8 == <<90, 0, 8, 211, 255, 255, 0, 0, 0>>

\* The files of worked examples.
BDT_EXAMPLE ==
  <<90, 0, 17, 211, 168, 168, 0, 0, 0, 196, 214, 195, 78, 193, 212, 197, 0, 0>>

\* Bodies of more than one repeating group.  MCC: two groups of six bytes,
\* and one group and a half.  MCF and MPO: the single groups of McfChunks (MPO
\* only), two groups of RGLength 5, and a group followed by one whose RGLength
\* runs past the data.  MCF-1: RGLength 28 and two groups of 28 bytes, and one
\* group followed by two bytes.
MCF1_GROUP_A == <<1, 0, 2, 0>> \o [k \in 1..8 |-> 193] \o [k \in 1..8 |-> 194]
                  \o [k \in 1..8 |-> 195]
MCF1_GROUP_B == <<3, 0, 4, 0>> \o [k \in 1..8 |-> 196] \o [k \in 1..8 |-> 197]
                  \o [k \in 1..8 |-> 198]
GroupBodies ==
       {SFIBytes(AFP_SF_MCC, 0) \o x :
          x \in {<<0, 1, 0, 2, 0, 5, 0, 3, 0, 4, 0, 6>>, <<0, 1, 0, 2, 0, 5, 0, 3, 0>>}}
  \cup {SFIBytes(AFP_SF_MPO, 0) \o x : x \in McfChunks}
  \cup {SFIBytes(t, 0) \o x :
          t \in {AFP_SF_MCF, AFP_SF_MPO},
          x \in {<<0, 5, 3, 37, 1, 0, 5, 3, 37, 2>>, <<0, 5, 3, 37, 1, 0, 9, 3>>}}
  \cup {SFIBytes(AFP_SF_MCF_1, 0) \o <<28, 0, 0, 0>> \o MCF1_GROUP_A \o x :
          x \in {MCF1_GROUP_B, <<1, 2>>}}

ExampleFiles ==
  {UNKNOWN_FIELD_LENGTH_9, UNKNOWN_FIELD_LENGTH_8, BDT_EXAMPLE}
    \cup {Frame(b) : b \in GroupBodies}

LastFields ==
  FramingFiles \cup {Frame(b) : b \in HeaderBodies \cup DataBodies} \cup ExampleFiles

Files == {pre \o last : pre \in Prefixes, last \in LastFields}

Configs ==
  { ParserConfig(a, b, c, d) : a \in BOOLEAN, b \in BOOLEAN, c \in BOOLEAN, d \in BOOLEAN }

\* The buffers and start offsets handed to parse_triplets and parse_ptoca.
TripletBuffers == Concats(TripletChunks, MaxChunks)
PtocaBuffers   == Concats(PtocaChunks, MaxChunks) \cup PtocaExamples
Offsets        == {0, 1}

\* The widths and buffers handed to parse_sbin: one, two and three bytes, and
\* every list of at most three bytes drawn from the values next to the sign
\* change.
SbinWidths  == {1, 2, 3}
SbinBytes   == {0, 1, 127, 128, 254, 255}
SbinBuffers == UNION {[1..k -> SbinBytes] : k \in {0} \cup SbinWidths}

\* ------------------------------------------------------------------------
\* The state: a call of stream(), of parse_triplets() or of parse_ptoca()
\* ------------------------------------------------------------------------

VARIABLES
  call,                \* the function called
  parser_config,
  status,              \* "open" / "running" while the call goes on, then how it ended
  error,               \* the exception that left the call, or "None"
  \* stream(f, ...)
  f,                   \* the content of the file
  f_pos,               \* f.tell()
  field_no,
  field_start_offset,
  sf_start,            \* f.tell() before each record of yielded was read
  yielded,             \* the records yielded so far
  \* parse_triplets(data, parser_config, offset), parse_ptoca(...)
  data,
  offset,
  p,
  i,
  chained,
  triplet_list,
  ctrl_sequences,
  passes,              \* for each pass of the loop made so far: p and chained on
                       \* entry, the bytes handed to parse_syntax, p and chained
                       \* on exit
  \* parse_sbin(data, n, offset)
  n,
  returned             \* the outcome of the call once it is over

streamVars == <<f, f_pos, field_no, field_start_offset, sf_start, yielded>>
loopVars   == <<data, offset, p, i, chained, triplet_list, ctrl_sequences, passes>>
sbinVars   == <<n, returned>>
vars       == <<call, parser_config, status, error, streamVars, loopVars, sbinVars>>

NoStream ==
  /\ f = <<>> /\ f_pos = 0 /\ field_no = 1 /\ field_start_offset = 0
  /\ sf_start = <<>> /\ yielded = <<>>

NoLoop ==
  /\ data = <<>> /\ offset = 0 /\ p = 0 /\ i = 0 /\ chained = FALSE
  /\ triplet_list = <<>> /\ ctrl_sequences = <<>> /\ passes = <<>>

NoSbin == n = 0 /\ returned = [st |-> "pending"]

\* The generator is created on a file at position 0; field_no and
\* field_start_offset have the values the first pull gives them.
InitStream ==
  /\ call = "stream"
  /\ f \in Files
  /\ parser_config \in Configs
  /\ f_pos = 0
  /\ field_no = 1
  /\ field_start_offset = 0
  /\ sf_start = <<>>
  /\ yielded = <<>>
  /\ call = "stream"
  /\ status = "open"
  /\ error = "None"
  /\ NoLoop
  /\ NoSbin

\* parse_triplets is entered: triplet_list = [], p = offset, i = 0.
InitTriplets ==
  /\ call = "parse_triplets"
  /\ data \in TripletBuffers
  /\ offset \in Offsets
  /\ parser_config \in {c \in Configs : ~c.allow_unknown_fields /\ ~c.allow_unknown_functions}
  /\ p = offset
  /\ i = 0
  /\ chained = FALSE
  /\ triplet_list = <<>>
  /\ ctrl_sequences = <<>>
  /\ passes = <<>>
  /\ status = "running"
  /\ error = "None"
  /\ NoStream
  /\ NoSbin

\* parse_ptoca is entered: ctrl_sequences = [], chained = False, p = offset.
InitPtoca ==
  /\ call = "parse_ptoca"
  /\ data \in PtocaBuffers
  /\ offset \in Offsets
  /\ parser_config \in {c \in Configs : ~c.allow_unknown_fields /\ ~c.allow_unknown_triplets}
  /\ p = offset
  /\ i = 0
  /\ chained = FALSE
  /\ triplet_list = <<>>
  /\ ctrl_sequences = <<>>
  /\ passes = <<>>
  /\ status = "running"
  /\ error = "None"
  /\ NoStream
  /\ NoSbin

\* parse_sbin is entered on a buffer, a width and an offset.
InitSbin ==
  /\ call = "parse_sbin"
  /\ data \in SbinBuffers
  /\ n \in SbinWidths
  /\ offset \in Offsets
  /\ parser_config = ParserConfig(FALSE, FALSE, FALSE, FALSE)
  /\ p = 0
  /\ i = 0
  /\ chained = FALSE
  /\ triplet_list = <<>>
  /\ ctrl_sequences = <<>>
  /\ passes = <<>>
  /\ returned = [st |-> "pending"]
  /\ status = "running"
  /\ error = "None"
  /\ NoStream

Init == InitStream \/ InitTriplets \/ InitPtoca \/ InitSbin

\* ------------------------------------------------------------------------
\* parser.py: stream(), one action per outcome of a pull on the generator
\* ------------------------------------------------------------------------

\* The call of read_structured_field a pull makes.
NextField == read_structured_field(f, f_pos, parser_config)

\* YieldField with the records kept newest first.
YieldField_newest_first(r) ==
  /\ call = "stream"
  /\ status = "open"
  /\ r.st = "ok"
  /\ yielded' = <<r.sf>> \o yielded
  /\ sf_start' = Append(sf_start, field_start_offset)
  /\ f_pos' = r.pos
  /\ field_no' = field_no + 1
  /\ field_start_offset' = r.pos
  /\ UNCHANGED <<call, sbinVars, f, parser_config, status, error, loopVars>>

\* yield sf; on resumption field_no += 1 and field_start_offset = f.tell().
YieldField(r) ==
  /\ call = "stream"
  /\ status = "open"
  /\ r.st = "ok"
  /\ yielded' = Append(yielded, r.sf)
  /\ sf_start' = Append(sf_start, field_start_offset)
  /\ f_pos' = r.pos
  /\ field_no' = field_no + 1
  /\ field_start_offset' = r.pos
  /\ UNCHANGED <<call, sbinVars, f, parser_config, status, error, loopVars>>

\* read_structured_field returns None: the generator returns.
ReturnAt(r) ==
  /\ call = "stream"
  /\ status = "open"
  /\ r.st = "none"
  /\ status' = "ended"
  /\ f_pos' = r.pos
  /\ UNCHANGED <<call, sbinVars, f, parser_config, field_no, field_start_offset, sf_start, yielded,
                 error, loopVars>>

\* RaiseAnnotated with the number of fields read before the failing one.
RaiseAnnotated_fields_before(r) ==
  /\ call = "stream"
  /\ status = "open"
  /\ r.st = "raise"
  /\ status' = "raised"
  /\ error' = [r.err EXCEPT !.field_no = field_no - 1,
                            !.field_start_offset = field_start_offset]
  /\ f_pos' = r.pos
  /\ UNCHANGED <<call, sbinVars, f, parser_config, field_no, field_start_offset, sf_start, yielded,
                 loopVars>>

\* except ParseError as e: e.field_no, e.field_start_offset are set; raise e.
RaiseAnnotated(r) ==
  /\ call = "stream"
  /\ status = "open"
  /\ r.st = "raise"
  /\ status' = "raised"
  /\ error' = [r.err EXCEPT !.field_no = field_no,
                            !.field_start_offset = field_start_offset]
  /\ f_pos' = r.pos
  /\ UNCHANGED <<call, sbinVars, f, parser_config, field_no, field_start_offset, sf_start, yielded,
                 loopVars>>

\* An exception that is not a ParseError passes the except clause untouched.
RaiseUncaught(r) ==
  /\ call = "stream"
  /\ status = "open"
  /\ r.st = "crash"
  /\ status' = "raised"
  /\ error' = r.err
  /\ f_pos' = r.pos
  /\ UNCHANGED <<call, sbinVars, f, parser_config, field_no, field_start_offset, sf_start, yielded,
                 loopVars>>

\* read_structured_field never returns.
NeverReturns(r) ==
  /\ call = "stream"
  /\ status = "open"
  /\ r.st = "diverge"
  /\ status' = "diverged"
  /\ UNCHANGED <<call, sbinVars, parser_config, error, streamVars, loopVars>>

\* ------------------------------------------------------------------------
\* parser.py: parse_triplets(), one action per pass of its loop
\*
\* p never decreases, so a call that has made more than len(data) passes
\* has made one that left p unchanged, which every later pass repeats: the
\* passes after that one are not modelled.
\* ------------------------------------------------------------------------

ThisTriplet == triplet_iteration(data, parser_config, p, i)

TripletAppended(it) ==
  /\ call = "parse_triplets"
  /\ status = "running"
  /\ p < Len(data)
  /\ i <= Len(data)
  /\ it.st = "ok"
  /\ triplet_list' = Append(triplet_list, it.triplet)
  /\ passes' = Append(passes, [p |-> p, was_chained |-> FALSE, contents |-> it.contents,
                               next |-> it.p, chained |-> FALSE])
  /\ p' = it.p
  /\ i' = i + 1
  /\ UNCHANGED <<call, sbinVars, parser_config, status, error, streamVars, data, offset, chained,
                 ctrl_sequences>>

TripletRaised(it) ==
  /\ call = "parse_triplets"
  /\ status = "running"
  /\ p < Len(data)
  /\ it.st = "raise"
  /\ status' = "raised"
  /\ error' = it.err
  /\ UNCHANGED <<call, sbinVars, parser_config, streamVars, loopVars>>

\* return triplet_list
TripletsReturn ==
  /\ call = "parse_triplets"
  /\ status = "running"
  /\ ~(p < Len(data))
  /\ status' = "returned"
  /\ UNCHANGED <<call, sbinVars, parser_config, error, streamVars, loopVars>>

\* ------------------------------------------------------------------------
\* parser.py: parse_ptoca(), one action per pass of its loop
\* ------------------------------------------------------------------------

ThisCtrlSequence == ptoca_iteration(data, parser_config, p, i, chained)

CtrlSequenceAppended(it) ==
  /\ call = "parse_ptoca"
  /\ status = "running"
  /\ p < Len(data)
  /\ i <= Len(data)
  /\ it.st = "ok"
  /\ ctrl_sequences' = Append(ctrl_sequences, it.ctrl_sequence)
  /\ passes' = Append(passes, [p |-> p, was_chained |-> chained,
                               contents |-> it.function_data, next |-> it.p,
                               chained |-> it.chained])
  /\ p' = it.p
  /\ i' = i + 1
  /\ chained' = it.chained
  /\ UNCHANGED <<call, sbinVars, parser_config, status, error, streamVars, data, offset,
                 triplet_list>>

CtrlSequenceRaised(it) ==
  /\ call = "parse_ptoca"
  /\ status = "running"
  /\ p < Len(data)
  /\ it.st = "raise"
  /\ status' = "raised"
  /\ error' = it.err
  /\ UNCHANGED <<call, sbinVars, parser_config, streamVars, loopVars>>

\* if chained: raise InvalidControlSequenceError('Final function is chained')
PtocaFinalChained ==
  /\ call = "parse_ptoca"
  /\ status = "running"
  /\ ~(p < Len(data))
  /\ chained
  /\ status' = "raised"
  /\ error' = ParseError("InvalidControlSequenceError", "Final function is chained", "None")
  /\ UNCHANGED <<call, sbinVars, parser_config, streamVars, loopVars>>

\* return ctrl_sequences
PtocaReturn ==
  /\ call = "parse_ptoca"
  /\ status = "running"
  /\ ~(p < Len(data))
  /\ ~chained
  /\ status' = "returned"
  /\ UNCHANGED <<call, sbinVars, parser_config, error, streamVars, loopVars>>

\* ------------------------------------------------------------------------
\* parser.py: parse_sbin(), one action per way the call ends
\* ------------------------------------------------------------------------

\* return None, or return i
SbinReturn(r) ==
  /\ call = "parse_sbin"
  /\ status = "running"
  /\ r.st \in {"ok", "none"}
  /\ returned' = r
  /\ status' = "returned"
  /\ UNCHANGED <<call, parser_config, error, streamVars, loopVars, n>>

\* parse_bytes raises EOSWhileReadingError, which parse_sbin lets through.
SbinRaised(r) ==
  /\ call = "parse_sbin"
  /\ status = "running"
  /\ r.st = "eos"
  /\ status' = "raised"
  /\ error' = ParseError("EOSWhileReadingError", "Out of data while parsing", n)
  /\ UNCHANGED <<call, parser_config, streamVars, loopVars, sbinVars>>

Next ==
  \/ YieldField(NextField)
  \/ ReturnAt(NextField)
  \/ RaiseAnnotated(NextField)
  \/ RaiseUncaught(NextField)
  \/ NeverReturns(NextField)
  \/ TripletAppended(ThisTriplet)
  \/ TripletRaised(ThisTriplet)
  \/ TripletsReturn
  \/ CtrlSequenceAppended(ThisCtrlSequence)
  \/ CtrlSequenceRaised(ThisCtrlSequence)
  \/ PtocaFinalChained
  \/ PtocaReturn
  \/ SbinReturn(parse_sbin(data, n, offset))
  \/ SbinRaised(parse_sbin(data, n, offset))

Spec == Init /\ [][Next]_vars

\* ------------------------------------------------------------------------
\* Properties
\* ------------------------------------------------------------------------

\* The bytes a list of emitted records occupies in the file: each field is
\* its framing byte and SFLength more bytes.
RECURSIVE Consumed(_)
Consumed(records) ==
  IF records = <<>> THEN 0
  ELSE Get(records[1], PNAME_SF_LENGTH) + 1 + Consumed(Tail(records))

\* The body of the field framed at pos, when the framing byte, the length
\* and the body can be read.
FramedBody(bytes, pos) ==
  IF read_byte(bytes, pos).st # "ok" THEN NoneResult
  ELSE IF read_byte(bytes, pos).v # CARRIAGE_CONTROL_CHAR THEN NoneResult
  ELSE IF read_ubin(bytes, pos + 1, 2).st # "ok" THEN NoneResult
  ELSE IF read_bytes(bytes, pos + 3, read_ubin(bytes, pos + 1, 2).v - 2).st # "ok"
  THEN NoneResult
  ELSE read_bytes(bytes, pos + 3, read_ubin(bytes, pos + 1, 2).v - 2)

\* The introducer of the field framed at pos as parse_syntax returns it, when
\* it returns one that holds the type ID.
Introducer(bytes, pos, config) ==
  IF FramedBody(bytes, pos).st # "ok" THEN NoneResult
  ELSE LET sfi == parse_syntax(FramedBody(bytes, pos).v, SYNTAX_SFI, config,
                               EmptyDict, EmptyCounters)
       IN IF sfi.st = "ok" /\ Has(sfi.result, PNAME_SF_TYPE_ID) THEN sfi ELSE NoneResult

ClassCode(type_id) == (type_id \div 65536) % 256

Raises(r, kind) == r.st = "raise" /\ r.err.kind = kind

\* Whether a record, or a record nested in it, carries _exceptions.
RECURSIVE HasExceptions(_)
HasExceptions(record) ==
  \E k \in DOMAIN record :
    \/ record[k].key.name = PNAME_EXCEPTIONS
    \/ /\ record[k].key.name \in {PNAME_TRIPLETS, PNAME_REPEATING_GROUP, "PTOCAdat"}
       /\ \E j \in DOMAIN record[k].val : HasExceptions(record[k].val[j])

Deferred == {"RequiredParameterMissingError", "IncompleteParameterError"}

\* C1: every pull on stream() finishes, by a record, by the end of the
\* sequence or by an error, and no pass of the loop of parse_triplets or of
\* parse_ptoca leaves the variables of the loop (p, chained) as it found
\* them, which is what a loop that terminates on every buffer needs.
C1_EveryPullFinishes ==
  /\ status # "diverged"
  /\ \A k \in DOMAIN passes :
       passes[k].next > passes[k].p \/ passes[k].chained # passes[k].was_chained

\* C2: a field on which strict parsing raises required-parameter-missing or
\* incomplete-parameter is, by lenient parsing, emitted with the condition
\* in an _exceptions list; lenient parsing never raises either error; any
\* other error strict parsing raises is raised the same by lenient parsing.
C2_LenientAccumulates ==
  (call = "stream" /\ status = "open") =>
    LET s == read_structured_field(f, f_pos, [parser_config EXCEPT !.strict = TRUE])
        l == read_structured_field(f, f_pos, [parser_config EXCEPT !.strict = FALSE])
    IN /\ ~(l.st = "raise" /\ l.err.kind \in Deferred)
       /\ (s.st = "raise" /\ s.err.kind \in Deferred) => (l.st = "ok" /\ HasExceptions(l.sf))
       /\ (s.st \in {"raise", "crash"} /\ s.err.kind \notin Deferred) => l = s

\* The three levels of C3.  An unknown ID that the checks before the lookup
\* let through is fatal exactly under the configurations whose own flag is
\* off, whatever strict and the other flags are; a known ID never is; an
\* unknown element that is decoded is decoded with the raw syntax.  stream()
\* is started under each of the sixteen configurations, so the rule for
\* fields is stated of the configuration of the call; parse_triplets and
\* parse_ptoca are started under four, so theirs are stated of all sixteen
\* where the ID is unknown.
UnknownFieldRule ==
  (call = "stream" /\ status = "open") =>
    LET h == Introducer(f, f_pos, parser_config)
        r == NextField
    IN (/\ h.st = "ok"
        /\ ClassCode(Get(h.result, PNAME_SF_TYPE_ID)) = MODCA_CLASS_CODE
        /\ Has(h.result, PNAME_FLAG_BYTE)
        /\ ~sfi_pad_flag(Get(h.result, PNAME_FLAG_BYTE)))
       => IF Get(h.result, PNAME_SF_TYPE_ID) \in DOMAIN AFP_SF_TYPES
          THEN ~Raises(r, "UnrecognizedStructuredFieldError")
          ELSE /\ Raises(r, "UnrecognizedStructuredFieldError")
                    <=> ~parser_config.allow_unknown_fields
               /\ r.st = "ok" =>
                    r.sf = parse_syntax(
                             PySlice(FramedBody(f, f_pos).v, r.field_data_start,
                                     Len(FramedBody(f, f_pos).v)),
                             SYNTAX_FIELD_RAW, parser_config,
                             DictSet(h.result, Key(PNAME_SF_LENGTH),
                                     Len(FramedBody(f, f_pos).v) + 2),
                             h.counters).result

UnknownTripletRule ==
  (call = "parse_triplets" /\ status = "running" /\ p + 1 < Len(data)) =>
    IF data[p + 2] \in DOMAIN TRIPLET_TYPES
    THEN ~Raises(ThisTriplet, "UnrecognizedTripletError")
    ELSE \A c \in Configs :
           LET it == triplet_iteration(data, c, p, i) IN
           /\ Raises(it, "UnrecognizedTripletError") <=> ~c.allow_unknown_triplets
           /\ it.st = "ok" =>
                it.triplet =
                  DictSet(DictSet(parse_syntax(it.contents, SYNTAX_TRIPLET_RAW, c,
                                               EmptyDict, EmptyCounters).result,
                                  Key(PNAME_T_LENGTH), data[p + 1]),
                          Key(PNAME_T_ID), data[p + 2])

\* The position of the LENGTH byte of the control sequence the pass at p
\* decodes, or -1 when the escape sequence fails the pass.
LengthPosition ==
  IF chained THEN p
  ELSE IF parse_ubin(data, 2, p).st = "ok" /\ parse_ubin(data, 2, p).v = PTX_ESCAPE_SEQUENCE
  THEN p + 2
  ELSE -1

UnknownFunctionRule ==
  (/\ call = "parse_ptoca" /\ status = "running" /\ p < Len(data)
   /\ LengthPosition >= 0 /\ LengthPosition + 1 < Len(data)) =>
    IF data[LengthPosition + 2] \in DOMAIN FUNCTIONS
    THEN ~Raises(ThisCtrlSequence, "UnknownFunctionError")
    ELSE \A c \in Configs :
           LET it == ptoca_iteration(data, c, p, i, chained) IN
           /\ Raises(it, "UnknownFunctionError") <=> ~c.allow_unknown_functions
           /\ it.st = "ok" =>
                it.ctrl_sequence =
                  DictSet(DictSet(parse_syntax(it.function_data, SYNTAX_FUNCTION_RAW, c,
                                               EmptyDict, EmptyCounters).result,
                                  Key(PNAME_CS_LENGTH), data[LengthPosition + 1]),
                          Key(PNAME_CS_TYPE), data[LengthPosition + 2])

\* C3: at each of the three levels an ID that is in no table, met with no
\* earlier check on the element failed, raises the level's unrecognized
\* error exactly when the level's own allow_unknown_* flag is off, whatever
\* strict and the two other flags are; with the flag on no such error is
\* raised and the element is decoded with the raw syntax.
C3_UnknownIds == UnknownFieldRule /\ UnknownTripletRule /\ UnknownFunctionRule

\* C3 witness: parse_triplets with strict on and allow_unknown_triplets off
\* has decoded one triplet and raised UnrecognizedTripletError on the next.
C3_Witness ==
  /\ call = "parse_triplets"
  /\ status = "raised"
  /\ error.kind = "UnrecognizedTripletError"
  /\ Len(triplet_list) = 1
  /\ ~parser_config.allow_unknown_triplets

\* What the framing of the field at f_pos lacks: a 0x5A, two bytes of
\* SFLength, an SFLength above 2, or SFLength - 2 bytes of body.
FramingViolated ==
  \/ f[f_pos + 1] # CARRIAGE_CONTROL_CHAR
  \/ Len(f) < f_pos + 3
  \/ BigEndian(PySlice(f, f_pos + 1, f_pos + 3)) <= 2
  \/ Len(f) < f_pos + 1 + BigEndian(PySlice(f, f_pos + 1, f_pos + 3))

\* C4: at a field boundary stream() ends without error exactly when no byte
\* is left, and every violation of the framing (framing byte, length, body,
\* SFLength <= 2) raises InvalidStructuredFieldError.
C4_Framing ==
  (call = "stream" /\ status = "open") =>
    /\ NextField.st = "none" <=> f_pos >= Len(f)
    /\ (f_pos < Len(f) /\ FramingViolated) =>
         Raises(NextField, "InvalidStructuredFieldError")

\* C5: whatever leaves stream() is a ParseError of one of the kinds of
\* exceptions.py that carries the field number and the start offset.
C5_OnlyParseErrors ==
  (call = "stream" /\ status = "raised") =>
    /\ error.kind \in ParseErrorKinds
    /\ {"field_no", "field_start_offset"} \subseteq DOMAIN error
    /\ error.field_no = field_no
    /\ error.field_start_offset = field_start_offset

\* C6: a ParseError that leaves stream() after k - 1 records carries
\* field_no = k and, as field_start_offset, the position of the framing byte
\* of the k-th field: the end of the k - 1 fields emitted.
C6_ErrorContext ==
  (call = "stream" /\ status = "raised" /\ error.kind \in ParseErrorKinds) =>
    /\ error.field_no = Len(yielded) + 1
    /\ error.field_start_offset = Consumed(yielded)

\* C6 witness: the third field of a file has raised a ParseError.
C6_Witness ==
  /\ call = "stream"
  /\ status = "raised"
  /\ error.kind \in ParseErrorKinds
  /\ Len(yielded) = 2

\* C7: the records emitted are, in order, those of the fields that lie one
\* after the other from the start of the file, one record per field; when a
\* field fails, the records emitted are those of the fields before it and
\* none is emitted for it.
C7_SourceOrder ==
  call = "stream" =>
    /\ Len(sf_start) = Len(yielded)
    /\ \A j \in DOMAIN yielded :
         /\ sf_start[j] = Consumed(SubSeq(yielded, 1, j - 1))
         /\ read_structured_field(f, sf_start[j], parser_config).st = "ok"
         /\ read_structured_field(f, sf_start[j], parser_config).sf = yielded[j]
    /\ status \in {"raised", "diverged"} =>
         read_structured_field(f, Consumed(yielded), parser_config).st
           \in {"raise", "crash", "diverge"}

\* C7 witness: two records have been emitted and the third field has failed.
C7_Witness ==
  /\ call = "stream"
  /\ status = "raised"
  /\ Len(yielded) = 2
  /\ yielded[1] # yielded[2]

\* C8: every record emitted has class code 0xD3; a field that is framed whole
\* and whose class byte differs raises UnrecognizedIdentifierCodeError, of
\* code 0x40, whether or not its padding flag is set and its type is known;
\* the padding error and the unknown-field error are raised only for fields
\* of class 0xD3.
C8_ClassCode ==
  call = "stream" =>
    /\ \A j \in DOMAIN yielded :
         /\ Has(yielded[j], PNAME_SF_TYPE_ID)
         /\ Get(yielded[j], PNAME_SF_TYPE_ID) \div 65536 = MODCA_CLASS_CODE
    /\ status = "open" =>
         /\ (/\ FramedBody(f, f_pos).st = "ok"
             /\ FramedBody(f, f_pos).v[1] # MODCA_CLASS_CODE)
              => /\ Raises(NextField, "UnrecognizedIdentifierCodeError")
                 /\ NextField.err.modca_code = 64
         /\ (\/ Raises(NextField, "PaddingNotImplementedError")
             \/ Raises(NextField, "UnrecognizedStructuredFieldError"))
              => f[f_pos + 4] = MODCA_CLASS_CODE

\* The position of the file after the j-th record was read.
EndOfField(j) == IF j < Len(sf_start) THEN sf_start[j + 1] ELSE field_start_offset

\* C9 as stated: SFLength of every record emitted is the number of bytes
\* read from the file for its field.
C9_LengthIsBytesRead ==
  call = "stream" =>
    \A j \in DOMAIN yielded :
      Get(yielded[j], PNAME_SF_LENGTH) = EndOfField(j) - sf_start[j]

\* C9 amended: SFLength of every record emitted is one less than the number
\* of bytes read from the file for its field: it counts the two length bytes
\* and the body and leaves out the framing byte 0x5A.
C9_LengthExcludesFramingByte ==
  call = "stream" =>
    \A j \in DOMAIN yielded :
      Get(yielded[j], PNAME_SF_LENGTH) = EndOfField(j) - sf_start[j] - 1

\* C9 witness: two records have been emitted.
C9_Witness == call = "stream" /\ Len(yielded) = 2

\* C10: the contents decoded for a triplet of Tlength >= 2 are the
\* Tlength - 2 bytes after its header and p advances by Tlength; a triplet of
\* Tlength = 2 whose Tid the lookup lets through is not refused for want of
\* contents, wherever it stands.
C10_TripletBody ==
  call = "parse_triplets" =>
    /\ \A k \in DOMAIN passes :
         Get(triplet_list[k], PNAME_T_LENGTH) >= 2 =>
           /\ passes[k].contents =
                PySlice(data, passes[k].p + 2,
                        passes[k].p + Get(triplet_list[k], PNAME_T_LENGTH))
           /\ passes[k].next = passes[k].p + Get(triplet_list[k], PNAME_T_LENGTH)
    /\ (status = "running" /\ p + 1 < Len(data) /\ data[p + 1] = 2)
         => ~Raises(ThisTriplet, "InvalidTripletError")

\* C11: a pass of parse_triplets that reads a header whose Tlength is 0 or 1
\* and whose Tid the lookup lets through raises InvalidTripletError, under
\* strict and lenient parsing alike, and no triplet of the list has a
\* Tlength below 2.
C11_ShortTlengthFatal ==
  call = "parse_triplets" =>
    /\ \A k \in DOMAIN triplet_list : Get(triplet_list[k], PNAME_T_LENGTH) >= 2
    /\ (/\ status = "running" /\ p + 1 < Len(data) /\ data[p + 1] < 2
        /\ (data[p + 2] \in DOMAIN TRIPLET_TYPES \/ parser_config.allow_unknown_triplets))
         => Raises(ThisTriplet, "InvalidTripletError")

\* The position of the LENGTH byte of the control sequence the k-th pass
\* decoded: the pass consumed an escape sequence unless it was chained.
LengthByteOf(k) == passes[k].p + (IF passes[k].was_chained THEN 0 ELSE 2)

\* C12: every control sequence of the list has LENGTH >= 2, the bytes handed
\* to its syntax are the LENGTH - 2 bytes after LENGTH and TYPE, and the pass
\* leaves p LENGTH bytes past the LENGTH byte; a header the lookup lets
\* through whose LENGTH is below 2 or reaches beyond the data raises
\* InvalidControlSequenceError.
C12_CtrlSequenceBody ==
  call = "parse_ptoca" =>
    /\ \A k \in DOMAIN passes :
         LET length == Get(ctrl_sequences[k], PNAME_CS_LENGTH) IN
         /\ length >= 2
         /\ passes[k].contents =
              PySlice(data, LengthByteOf(k) + 2, LengthByteOf(k) + length)
         /\ passes[k].next = LengthByteOf(k) + length
    /\ (/\ status = "running" /\ p < Len(data)
        /\ LengthPosition >= 0 /\ LengthPosition + 1 < Len(data)
        /\ \/ data[LengthPosition + 2] \in DOMAIN FUNCTIONS
           \/ parser_config.allow_unknown_functions
        /\ \/ data[LengthPosition + 1] < 2
           \/ LengthPosition + data[LengthPosition + 1] > Len(data))
         => Raises(ThisCtrlSequence, "InvalidControlSequenceError")

\* Whether parse_ptoca left its loop at the end of the buffer with a last
\* control sequence of odd TYPE.
EndsChained ==
  /\ ~(p < Len(data))
  /\ ctrl_sequences # <<>>
  /\ Get(ctrl_sequences[Len(ctrl_sequences)], PNAME_CS_TYPE) % 2 = 1

\* C13: parse_ptoca returns only a list that is empty or whose last control
\* sequence has an even TYPE; when the buffer ends after a control sequence
\* of odd TYPE the call raises InvalidControlSequenceError, 'Final function
\* is chained', and it raises that for no other reason.
C13_NoChainedLast ==
  call = "parse_ptoca" =>
    /\ status = "returned" =>
         \/ ctrl_sequences = <<>>
         \/ Get(ctrl_sequences[Len(ctrl_sequences)], PNAME_CS_TYPE) % 2 = 0
    /\ (status # "running" /\ EndsChained) =>
         /\ status = "raised"
         /\ error.kind = "InvalidControlSequenceError"
         /\ error.msg = "Final function is chained"
    /\ (status = "raised" /\ error.msg = "Final function is chained") => EndsChained

\* C13 witness: the buffer ended after two control sequences, the last one
\* chained, and the call raised.
C13_Witness ==
  /\ call = "parse_ptoca"
  /\ status = "raised"
  /\ error.msg = "Final function is chained"
  /\ Len(ctrl_sequences) = 2

\* A TRN record: TRNDATA is the text decoded, then LENGTH and TYPE.
TRNRecord(text, length, type) ==
  DictSet(DictSet(DictSet(EmptyDict, Key("TRNDATA"), text),
                  Key(PNAME_CS_LENGTH), length),
          Key(PNAME_CS_TYPE), type)

\* C14 as stated: the body 2B D3 05 DA C1 C2 C3 03 DA C4 raises no error and
\* the list returned for it is two TRN control sequences.
C14_TwoUnchainedParse ==
  (call = "parse_ptoca" /\ data = PTX_TWO_UNCHAINED /\ offset = 0) =>
    /\ status # "raised"
    /\ ~(p < Len(data)) =>
         ctrl_sequences = << TRNRecord(<<65, 66, 67>>, 5, FN_U_TRN),
                             TRNRecord(<<68>>, 3, FN_U_TRN) >>

\* C14 amended: an unchained TRN ends its chain, so the body
\* 2B D3 05 DA C1 C2 C3 03 DA C4 yields one TRN and then raises
\* InvalidControlSequenceError for the escape sequence missing before the
\* second; the body that parses cleanly into two TRN control sequences is
\* 2B D3 05 DB C1 C2 C3 03 DA C4, whose first TRN is chained.
C14_ChainedFirstParses ==
  (call = "parse_ptoca" /\ offset = 0) =>
    /\ data = PTX_TWO_UNCHAINED =>
         /\ status # "returned"
         /\ ctrl_sequences \in {<<>>, <<TRNRecord(<<65, 66, 67>>, 5, FN_U_TRN)>>}
         /\ status = "raised" =>
              /\ Len(ctrl_sequences) = 1
              /\ error.kind = "InvalidControlSequenceError"
              /\ error.msg = "Missing escape sequence before control sequence"
    /\ data = PTX_CHAINED_FIRST =>
         /\ status # "raised"
         /\ ~(p < Len(data)) =>
              /\ ~chained
              /\ ctrl_sequences = << TRNRecord(<<65, 66, 67>>, 5, FN_C_TRN),
                                     TRNRecord(<<68>>, 3, FN_U_TRN) >>

\* C14 witness: the call on 2B D3 05 DA C1 C2 C3 03 DA C4 has decoded the
\* first TRN and raised on the second.
C14_Witness ==
  /\ call = "parse_ptoca"
  /\ data = PTX_TWO_UNCHAINED
  /\ offset = 0
  /\ status = "raised"
  /\ Len(ctrl_sequences) = 1

\* The syntax read_structured_field applies to the data of a field of the
\* given type.
BodySyntax(type_id) ==
  IF type_id \in DOMAIN AFP_SF_TYPES THEN AFP_SF_TYPES[type_id].syntax ELSE SYNTAX_FIELD_RAW

\* Whether the field framed at f_pos has a whole introducer of six bytes and
\* an ExtLength byte, with the extension flag set.
ExtensionFramed ==
  /\ FramedBody(f, f_pos).st = "ok"
  /\ Len(FramedBody(f, f_pos).v) >= 7
  /\ sfi_ext_flag(FramedBody(f, f_pos).v[4])

\* C15: for a field with the extension flag set, ExtLength is the byte after
\* the six introducer bytes, ExtData is the ExtLength - 1 bytes after it (the
\* byte itself when there is one, no byte at all when ExtLength = 1), and the
\* record is the body syntax applied to the body from offset 6 + ExtLength
\* on; a field with ExtLength = 1 does not fail for want of ExtData.
C15_Extension ==
  (call = "stream" /\ status = "open" /\ ExtensionFramed) =>
    LET body       == FramedBody(f, f_pos).v
        ext_length == body[7]
        h          == Introducer(f, f_pos, parser_config)
        r          == NextField
    IN /\ r.st = "ok" =>
            /\ Get(r.sf, PNAME_EXT_LENGTH) = ext_length
            /\ IF ext_length = 1
               THEN ~Has(r.sf, PNAME_EXT_DATA) \/ Get(r.sf, PNAME_EXT_DATA) = <<>>
               ELSE /\ Has(r.sf, PNAME_EXT_DATA)
                    /\ Get(r.sf, PNAME_EXT_DATA) =
                         IF ext_length = 2 THEN body[8]
                         ELSE PySlice(body, 7, 6 + ext_length)
            /\ r.field_data_start = 6 + ext_length
            /\ r.sf = parse_syntax(PySlice(body, 6 + ext_length, Len(body)),
                                   BodySyntax(Get(r.sf, PNAME_SF_TYPE_ID)),
                                   parser_config,
                                   DictSet(h.result, Key(PNAME_SF_LENGTH), Len(body) + 2),
                                   h.counters).result
       /\ ext_length = 1 =>
            /\ ~(/\ Raises(r, "RequiredParameterMissingError")
                  /\ r.err.arg = PNAME_EXT_DATA)
            /\ ~(r.st = "crash" /\ r.err.kind = "KeyError" /\ r.err.arg = PNAME_EXT_DATA)

\* Whether an outcome of read_structured_field complains of the parameter
\* named: as the exception raised, as the key of a failed lookup, or as an
\* entry of the _exceptions of the record.
ComplainsOf(r, name) ==
  \/ /\ r.st = "raise"
     /\ r.err.kind \in Deferred
     /\ r.err.arg = name
  \/ r.st = "crash" /\ r.err.kind = "KeyError" /\ r.err.arg = name
  \/ /\ r.st = "ok"
     /\ Has(r.sf, PNAME_EXCEPTIONS)
     /\ \E k \in DOMAIN Get(r.sf, PNAME_EXCEPTIONS) :
          Get(r.sf, PNAME_EXCEPTIONS)[k][2].arg = name

\* C16: a field whose FlagByte can be read and has the extension flag clear
\* draws no complaint about ExtLength or ExtData; the record emitted for it
\* has neither key and is the body syntax applied to the body from offset 6
\* on.
C16_NoExtension ==
  (/\ call = "stream" /\ status = "open"
   /\ FramedBody(f, f_pos).st = "ok"
   /\ Len(FramedBody(f, f_pos).v) >= 4
   /\ ~sfi_ext_flag(FramedBody(f, f_pos).v[4])) =>
    LET body == FramedBody(f, f_pos).v
        h    == Introducer(f, f_pos, parser_config)
        r    == NextField
    IN /\ ~ComplainsOf(r, PNAME_EXT_LENGTH)
       /\ ~ComplainsOf(r, PNAME_EXT_DATA)
       /\ r.st = "ok" =>
            /\ ~Has(r.sf, PNAME_EXT_LENGTH)
            /\ ~Has(r.sf, PNAME_EXT_DATA)
            /\ r.field_data_start = 6
            /\ r.sf = parse_syntax(PySlice(body, 6, Len(body)),
                                   BodySyntax(Get(r.sf, PNAME_SF_TYPE_ID)),
                                   parser_config,
                                   DictSet(h.result, Key(PNAME_SF_LENGTH), Len(body) + 2),
                                   h.counters).result

\* C16 witness: a record has been emitted for a field with the extension
\* flag clear whose body goes beyond the six introducer bytes.
C16_Witness ==
  /\ call = "stream"
  /\ Len(yielded) >= 1
  /\ ~sfi_ext_flag(Get(yielded[1], PNAME_FLAG_BYTE))
  /\ Get(yielded[1], PNAME_SF_LENGTH) > 8
  /\ ~Has(yielded[1], PNAME_EXT_LENGTH)

\* C17 as stated: every record emitted has the keys SFTypeID, FlagByte,
\* Reserved and SFLength.
C17_FourKeys ==
  call = "stream" =>
    \A j \in DOMAIN yielded :
      /\ Has(yielded[j], PNAME_SF_TYPE_ID)
      /\ Has(yielded[j], PNAME_FLAG_BYTE)
      /\ Has(yielded[j], "Reserved")
      /\ Has(yielded[j], PNAME_SF_LENGTH)

\* C17 amended: every record emitted has the keys SFTypeID, FlagByte and
\* SFLength; it has Reserved too under strict parsing and whenever the body
\* of the field holds the six introducer bytes; a record without Reserved is
\* one lenient parsing emitted for a body of four or five bytes, and its
\* _exceptions start with the entry (0x04, required parameter missing:
\* Reserved).
C17_KeysOfRecord ==
  call = "stream" =>
    \A j \in DOMAIN yielded :
      /\ Has(yielded[j], PNAME_SF_TYPE_ID)
      /\ Has(yielded[j], PNAME_FLAG_BYTE)
      /\ Has(yielded[j], PNAME_SF_LENGTH)
      /\ (parser_config.strict \/ Get(yielded[j], PNAME_SF_LENGTH) >= 8)
           => Has(yielded[j], "Reserved")
      /\ ~Has(yielded[j], "Reserved") =>
           /\ Get(yielded[j], PNAME_SF_LENGTH) \in {6, 7}
           /\ Has(yielded[j], PNAME_EXCEPTIONS)
           /\ Get(yielded[j], PNAME_EXCEPTIONS)[1] =
                ExceptionEntry(RequiredParameterMissing(SYNTAX_SFI[3]))

\* C17 witness: lenient parsing has emitted a record without Reserved.
C17_Witness ==
  /\ call = "stream"
  /\ ~parser_config.strict
  /\ Len(yielded) >= 1
  /\ ~Has(yielded[Len(yielded)], "Reserved")

\* The regular parameters of a syntax that are mandatory, in syntax order.
RECURSIVE MandatoryOf(_)
MandatoryOf(syntax) ==
  IF syntax = <<>> THEN <<>>
  ELSE IF ~IsList(syntax[1]) /\ syntax[1].mandatory
  THEN <<syntax[1]>> \o MandatoryOf(Tail(syntax))
  ELSE MandatoryOf(Tail(syntax))

\* The record of the four introducer keys for a body of six bytes.
FourKeys(body) ==
  DictSet(DictSet(DictSet(DictSet(EmptyDict,
                                  Key(PNAME_SF_TYPE_ID), BigEndian(PySlice(body, 0, 3))),
                          Key(PNAME_FLAG_BYTE), body[4]),
                  Key("Reserved"), PySlice(body, 4, 6)),
          Key(PNAME_SF_LENGTH), 8)

\* Whether the field framed at f_pos is six introducer bytes and no more,
\* with the extension and padding flags clear, of class 0xD3 and of a type
\* the lookup lets through.
IntroducerOnly ==
  /\ FramedBody(f, f_pos).st = "ok"
  /\ Len(FramedBody(f, f_pos).v) = 6
  /\ FramedBody(f, f_pos).v[1] = MODCA_CLASS_CODE
  /\ ~sfi_ext_flag(FramedBody(f, f_pos).v[4])
  /\ ~sfi_pad_flag(FramedBody(f, f_pos).v[4])
  /\ \/ BigEndian(PySlice(FramedBody(f, f_pos).v, 0, 3)) \in DOMAIN AFP_SF_TYPES
     \/ parser_config.allow_unknown_fields

\* C18 as stated: a field that is six introducer bytes and no more is
\* emitted with the four keys SFTypeID, FlagByte, Reserved, SFLength and
\* nothing else, whatever its type and whether parsing is strict or lenient.
C18_FourKeysOnly ==
  (call = "stream" /\ status = "open" /\ IntroducerOnly) =>
    /\ NextField.st = "ok"
    /\ NextField.sf = FourKeys(FramedBody(f, f_pos).v)

\* C18 amended: a field that is six introducer bytes and no more is emitted
\* with the four keys and nothing else when the syntax of its type has no
\* mandatory parameter; when it has, strict parsing raises
\* RequiredParameterMissingError for the first of them and lenient parsing
\* emits the four keys and an _exceptions list that starts with the entry
\* for the first of them.
C18_IntroducerOnly ==
  (call = "stream" /\ status = "open" /\ IntroducerOnly) =>
    LET body == FramedBody(f, f_pos).v
        M    == MandatoryOf(BodySyntax(BigEndian(PySlice(body, 0, 3))))
        r    == NextField
    IN IF M = <<>>
       THEN r.st = "ok" /\ r.sf = FourKeys(body)
       ELSE IF parser_config.strict
       THEN /\ Raises(r, "RequiredParameterMissingError")
            /\ r.err.arg = M[1].name
       ELSE /\ r.st = "ok"
            /\ Len(r.sf) = 5
            /\ SubSeq(r.sf, 1, 4) = FourKeys(body)
            /\ r.sf[5].key = Key(PNAME_EXCEPTIONS)
            /\ r.sf[5].val[1] = ExceptionEntry(RequiredParameterMissing(M[1]))

\* C18 witness: lenient parsing has emitted the record of a BDT that is six
\* introducer bytes and no more, with its _exceptions.
C18_Witness ==
  /\ call = "stream"
  /\ Len(yielded) >= 1
  /\ Get(yielded[Len(yielded)], PNAME_SF_TYPE_ID) = AFP_SF_BDT
  /\ Get(yielded[Len(yielded)], PNAME_SF_LENGTH) = 8
  /\ Has(yielded[Len(yielded)], PNAME_EXCEPTIONS)

\* Whether the keys of a record, and of the records nested in it, follow
\* the naming rule: no key twice, the occurrences of a name numbered 1, 2,
\* ... in the order they were stored (1 is the bare name).
RECURSIVE NamedInOrder(_)
NamedInOrder(record) ==
  \A k \in DOMAIN record :
    /\ \A j \in 1..(k - 1) : record[j].key # record[k].key
    /\ \A m \in 1..(record[k].key.n - 1) :
         \E j \in 1..(k - 1) : record[j].key = [name |-> record[k].key.name, n |-> m]
    /\ record[k].key.name \in {PNAME_TRIPLETS, PNAME_REPEATING_GROUP, "PTOCAdat"} =>
         \A j \in DOMAIN record[k].val : NamedInOrder(record[k].val[j])

\* The value a record holds under the nth occurrence of a name.
GetNth(record, name, nth) ==
  record[CHOOSE k \in DOMAIN record : record[k].key = [name |-> name, n |-> nth]].val

\* C19: in every record the keys are distinct and the k-th occurrence of a
\* name is stored as name-k, the first as the bare name, in decode order; the
\* count runs from the introducer into the body, so that a BDT whose body
\* reaches its Reserved holds the two Reserved bytes of the introducer under
\* Reserved, not overwritten, and those of the body under Reserved-2.
C19_UniqueNames ==
  /\ \A j \in DOMAIN yielded : NamedInOrder(yielded[j])
  /\ \A j \in DOMAIN triplet_list : NamedInOrder(triplet_list[j])
  /\ \A j \in DOMAIN ctrl_sequences : NamedInOrder(ctrl_sequences[j])
  /\ \A j \in DOMAIN yielded :
       (/\ Get(yielded[j], PNAME_SF_TYPE_ID) = AFP_SF_BDT
        /\ Get(yielded[j], PNAME_SF_LENGTH) >= 18
        /\ ~sfi_ext_flag(Get(yielded[j], PNAME_FLAG_BYTE))) =>
         /\ \E k \in DOMAIN yielded[j] :
              yielded[j][k].key = [name |-> "Reserved", n |-> 2]
         /\ Get(yielded[j], "Reserved") = PySlice(f, sf_start[j] + 7, sf_start[j] + 9)
         /\ GetNth(yielded[j], "Reserved", 2) =
              PySlice(f, sf_start[j] + 17, sf_start[j] + 19)

\* C19 witness: a BDT has been emitted whose Reserved-2 differs from its
\* Reserved.
C19_Witness ==
  /\ call = "stream"
  /\ Len(yielded) >= 1
  /\ Get(yielded[Len(yielded)], PNAME_SF_TYPE_ID) = AFP_SF_BDT
  /\ \E k \in DOMAIN yielded[Len(yielded)] :
       /\ yielded[Len(yielded)][k].key = [name |-> "Reserved", n |-> 2]
       /\ yielded[Len(yielded)][k].val # Get(yielded[Len(yielded)], "Reserved")

\* The number of entries of the _exceptions of a record.
ExceptionCount(record) ==
  IF Has(record, PNAME_EXCEPTIONS) THEN Len(Get(record, PNAME_EXCEPTIONS)) ELSE 0

\* C20: under lenient parsing a walk of a syntax adds at most one entry to
\* the _exceptions of its record, since the walk stops at the first: the one
\* walk of a triplet or of a control sequence leaves at most one entry, and
\* the walk of the body of a field adds at most one to those the introducer
\* left.
C20_WalkStopsAtFirst ==
  /\ \A j \in DOMAIN triplet_list : ExceptionCount(triplet_list[j]) <= 1
  /\ \A j \in DOMAIN ctrl_sequences : ExceptionCount(ctrl_sequences[j]) <= 1
  /\ (/\ call = "stream" /\ status = "open" /\ ~parser_config.strict
      /\ NextField.st = "ok") =>
       ExceptionCount(NextField.sf)
         <= ExceptionCount(Introducer(f, f_pos, parser_config).result) + 1

\* Whether the field framed at f_pos has class 0xD3 and a whole introducer:
\* six bytes and, with the extension flag set, an ExtLength of at least 1
\* and the ExtLength - 1 bytes of ExtData it announces.
CompleteIntroducer ==
  /\ FramedBody(f, f_pos).st = "ok"
  /\ Len(FramedBody(f, f_pos).v) >= 6
  /\ FramedBody(f, f_pos).v[1] = MODCA_CLASS_CODE
  /\ sfi_ext_flag(FramedBody(f, f_pos).v[4]) =>
       /\ Len(FramedBody(f, f_pos).v) >= 7
       /\ FramedBody(f, f_pos).v[7] >= 1
       /\ Len(FramedBody(f, f_pos).v) >= 6 + FramedBody(f, f_pos).v[7]

\* C21: a field of class 0xD3 with a whole introducer whose FlagByte has the
\* padding bit 0x08 set raises PaddingNotImplementedError under every
\* configuration, its type known or not; no record emitted has the bit set.
C21_PaddingRefused ==
  call = "stream" =>
    /\ \A j \in DOMAIN yielded : ~sfi_pad_flag(Get(yielded[j], PNAME_FLAG_BYTE))
    /\ (/\ status = "open"
        /\ CompleteIntroducer
        /\ sfi_pad_flag(FramedBody(f, f_pos).v[4]))
         => Raises(NextField, "PaddingNotImplementedError")

\* What is asked of the error a file of one field ends on: its class, its
\* code, field_no = 1 and field_start_offset = 0, with no record emitted.
FirstFieldRaises(kind, code) ==
  /\ yielded = <<>>
  /\ status # "ended"
  /\ status = "raised" =>
       /\ error.kind = kind
       /\ error.modca_code = code
       /\ error.field_no = 1
       /\ error.field_start_offset = 0

\* C22 as stated: on 5A 00 09 D3 FF FF 00 00 00 stream() raises
\* UnrecognizedStructuredFieldError, code 0x10, field 1, offset 0 when
\* allow_unknown_fields is off, and emits one record with Data = [] and no
\* exception when it is on.
C22_NineByteExample ==
  (call = "stream" /\ f = UNKNOWN_FIELD_LENGTH_9) =>
    IF ~parser_config.allow_unknown_fields
    THEN FirstFieldRaises("UnrecognizedStructuredFieldError", 16)
    ELSE /\ status # "raised"
         /\ status = "ended" =>
              /\ Len(yielded) = 1
              /\ Has(yielded[1], "Data")
              /\ Get(yielded[1], "Data") = <<>>
              /\ ~Has(yielded[1], PNAME_EXCEPTIONS)

\* C22 amended: the SFLength of 9 announces seven bytes of body where six
\* follow, so on 5A 00 09 D3 FF FF 00 00 00 stream() raises
\* InvalidStructuredFieldError, field 1, offset 0, whatever the options.  It
\* is on 5A 00 08 D3 FF FF 00 00 00 that stream() raises
\* UnrecognizedStructuredFieldError, code 0x10, field 1, offset 0 when
\* allow_unknown_fields is off, and emits one record when it is on: the four
\* introducer keys, no Data key (the body is empty) and no _exceptions.
C22_UnknownFieldExample ==
  call = "stream" =>
    /\ f = UNKNOWN_FIELD_LENGTH_9 => FirstFieldRaises("InvalidStructuredFieldError", 0)
    /\ f = UNKNOWN_FIELD_LENGTH_8 =>
         IF ~parser_config.allow_unknown_fields
         THEN FirstFieldRaises("UnrecognizedStructuredFieldError", 16)
         ELSE /\ status # "raised"
              /\ yielded \in {<<>>, <<FourKeys(PySlice(f, 3, 9))>>}
              /\ status = "ended" => Len(yielded) = 1

\* C22 witness: the call on 5A 00 09 D3 FF FF 00 00 00 with
\* allow_unknown_fields on has raised.
C22_Witness ==
  /\ call = "stream"
  /\ f = UNKNOWN_FIELD_LENGTH_9
  /\ parser_config.allow_unknown_fields
  /\ status = "raised"

\* ParserConfig() with no argument: every option off.
DefaultConfig == ParserConfig(FALSE, FALSE, FALSE, FALSE)

\* The record stream() emits for 5A 00 11 D3 A8 A8 00 00 00 C4 D6 C3 4E C1 D4
\* C5 00 00 under the default options: DocName is the eight bytes at body
\* offset 0 decoded ('DOC+AME' and a NUL, which strip() keeps), and the one
\* byte left at offset 8 is too short for the two-byte Reserved parameter.
BDT_EXAMPLE_RECORD ==
  DictSet(DictSet(DictSet(DictSet(DictSet(DictSet(EmptyDict,
    Key(PNAME_SF_TYPE_ID), AFP_SF_BDT),
    Key(PNAME_FLAG_BYTE), 0),
    Key("Reserved"), <<0, 0>>),
    Key(PNAME_SF_LENGTH), 17),
    Key("DocName"), Strip(Decode(<<196, 214, 195, 78, 193, 212, 197, 0>>))),
    Key(PNAME_EXCEPTIONS),
      <<ExceptionEntry(ParseError("RequiredParameterMissingError",
                                  "Required parameter missing", "Reserved"))>>)

TwosComplement(b) ==
  IF BigEndian(b) < Pow2(8 * Len(b) - 1)
  THEN BigEndian(b)
  ELSE BigEndian(b) - Pow2(8 * Len(b))

\* C24: parse_sbin(data, n, offset), when the n bytes at offset are all in
\* the buffer, returns their two's-complement value at width 8n: u when
\* u < 2^(8n-1) and u - 2^(8n) otherwise, for u the unsigned big-endian
\* value.  So FF FF FE gives -2, 80 00 00 gives -8388608 and 7F FF FF gives
\* 8388607.
C24_SbinTwosComplement ==
  (call = "parse_sbin" /\ status # "running" /\ offset + n <= Len(data)) =>
    /\ status = "returned"
    /\ returned.st = "ok"
    /\ returned.v = TwosComplement(PySlice(data, offset, offset + n))
    /\ returned.v >= -Pow2(8 * n - 1)
    /\ returned.v < Pow2(8 * n - 1)
    /\ (offset = 0 /\ n = 3) =>
         /\ data = <<255, 255, 254>> => returned.v = -2
         /\ data = <<128, 0, 0>> => returned.v = -8388608
         /\ data = <<127, 255, 255>> => returned.v = 8388607

\* C24 witness: parse_sbin has returned -2 for FF FF FE.
C24_Witness ==
  /\ call = "parse_sbin"
  /\ status = "returned"
  /\ data = <<255, 255, 254>>
  /\ n = 3
  /\ offset = 0
  /\ returned = [st |-> "ok", v |-> -2]

\* Whether the two bytes of data at position q are the escape sequence.
EscapeAt(q) ==
  /\ q + 2 <= Len(data)
  /\ BigEndian(PySlice(data, q, q + 2)) = PTX_ESCAPE_SEQUENCE

\* Whether r is the error parse_ptoca raises for an escape sequence that is
\* cut short or is not 0x2BD3.
EscapeError(r) ==
  /\ Raises(r, "InvalidControlSequenceError")
  /\ r.err.msg \in {"Not enough data to parse control sequence escape sequence",
                     "Missing escape sequence before control sequence"}

\* Whether the control sequences parsed so far end on one of odd TYPE.
LastTypeOdd ==
  /\ ctrl_sequences # <<>>
  /\ Get(ctrl_sequences[Len(ctrl_sequences)], PNAME_CS_TYPE) % 2 = 1

\* C25: parse_ptoca consumes the two bytes 2B D3 before the first control
\* sequence and before each one that follows a control sequence of even
\* TYPE, and none before one that follows a control sequence of odd TYPE;
\* where an escape sequence is required and the bytes at the read position
\* are not 2B D3, or only one byte is left, it raises
\* InvalidControlSequenceError.
C25_EscapeByChaining ==
  call = "parse_ptoca" =>
    /\ Len(passes) = Len(ctrl_sequences)
    /\ \A j \in DOMAIN passes :
         /\ passes[j].p = IF j = 1 THEN offset ELSE passes[j - 1].next
         /\ passes[j].was_chained =
              (j > 1 /\ Get(ctrl_sequences[j - 1], PNAME_CS_TYPE) % 2 = 1)
         /\ ~passes[j].was_chained => EscapeAt(passes[j].p)
         /\ passes[j].next - passes[j].p - Get(ctrl_sequences[j], PNAME_CS_LENGTH)
              = IF passes[j].was_chained THEN 0 ELSE 2
    /\ (status = "running" /\ p < Len(data)) =>
         /\ chained = LastTypeOdd
         /\ (~chained /\ ~EscapeAt(p)) => EscapeError(ThisCtrlSequence)
         /\ (chained \/ EscapeAt(p)) => ~EscapeError(ThisCtrlSequence)

\* C25 witness: a call has returned after a control sequence that followed
\* one of odd TYPE with no escape sequence and one that followed one of even
\* TYPE with its escape sequence.
C25_Witness ==
  /\ call = "parse_ptoca"
  /\ status = "returned"
  /\ \E j \in DOMAIN passes : passes[j].was_chained
  /\ \E j \in DOMAIN passes : j > 1 /\ ~passes[j].was_chained

\* Whether a syntax holds nothing but fixed-length parameters: no repeating
\* group, no preprocessor, every length above 0.
FixedLengthSyntax(syntax) ==
  \A k \in DOMAIN syntax :
    /\ ~IsList(syntax[k])
    /\ syntax[k].preproc = "None"
    /\ syntax[k].length > 0

\* The walk over a syntax of fixed-length parameters as C26 tells it, from
\* parameter k on, with the record built so far: a parameter that lies
\* whole in the buffer is decoded and stored; one that starts at or past
\* the end is skipped when optional and reported as missing when
\* mandatory, and the walk goes on; one that starts inside the buffer and
\* ends past it is reported (incomplete when optional, missing when
\* mandatory) and the walk ends.  To report is to raise under strict parsing
\* and to append to _exceptions otherwise.
RECURSIVE FixedLengthWalk(_, _, _, _, _)
FixedLengthWalk(buffer, syntax, config, k, record) ==
  IF k > Len(syntax) THEN [st |-> "ok", result |-> record]
  ELSE IF Len(buffer) >= syntax[k].offset + syntax[k].length
  THEN FixedLengthWalk(buffer, syntax, config, k + 1,
                       DictSet(record, Key(syntax[k].name),
                               parse_value(buffer, syntax[k], config).v))
  ELSE IF Len(buffer) <= syntax[k].offset
  THEN IF ~syntax[k].mandatory
       THEN FixedLengthWalk(buffer, syntax, config, k + 1, record)
       ELSE IF config.strict
       THEN Raise("RequiredParameterMissingError", "Required parameter missing",
                  syntax[k].name)
       ELSE FixedLengthWalk(
              buffer, syntax, config, k + 1,
              _add_exception(ParseError("RequiredParameterMissingError",
                                        "Required parameter missing", syntax[k].name),
                             record))
  ELSE IF config.strict
  THEN IF syntax[k].mandatory
       THEN Raise("RequiredParameterMissingError", "Required parameter missing",
                  syntax[k].name)
       ELSE Raise("IncompleteParameterError", "Not enough data to parse parameter",
                  syntax[k].name)
  ELSE [st |-> "ok",
        result |->
          _add_exception(
            IF syntax[k].mandatory
            THEN ParseError("RequiredParameterMissingError",
                            "Required parameter missing", syntax[k].name)
            ELSE ParseError("IncompleteParameterError",
                            "Not enough data to parse parameter", syntax[k].name),
            record)]

\* The position of the LENGTH byte of the control sequence the next pass of
\* parse_ptoca reads.
LengthPositionNow == IF chained THEN p ELSE p + 2

\* Whether the next pass of parse_ptoca hands the data of a control
\* sequence of a known function, whose syntax holds fixed-length parameters
\* only, to parse_syntax: the escape sequence is there where one is due, and
\* the LENGTH byte announces bytes that are all in the buffer.
WalksFixedLength ==
  /\ call = "parse_ptoca"
  /\ status = "running"
  /\ p < Len(data)
  /\ chained \/ EscapeAt(p)
  /\ LengthPositionNow + 2 <= Len(data)
  /\ data[LengthPositionNow + 2] \in DOMAIN FUNCTIONS
  /\ FixedLengthSyntax(FUNCTIONS[data[LengthPositionNow + 2]].syntax)
  /\ \/ data[LengthPositionNow + 1] >= 3 /\
          LengthPositionNow + data[LengthPositionNow + 1] <= Len(data)
     \/ data[LengthPositionNow + 1] = 2 /\ LengthPositionNow + 2 = Len(data)

\* The bytes that pass hands to parse_syntax, and the outcome C26 gives
\* for them.
WalkedData ==
  PySlice(data, LengthPositionNow + 2, LengthPositionNow + data[LengthPositionNow + 1])

WalkExpected ==
  FixedLengthWalk(WalkedData, FUNCTIONS[data[LengthPositionNow + 2]].syntax,
                  parser_config, 1, EmptyDict)

\* C26: a fixed-length parameter at offset o of length L > 0, decoded from
\* a buffer of n bytes, is decoded when n >= o + L; when n <= o it is
\* skipped silently if optional and reported as required-parameter-missing
\* (0x04) if mandatory, and the walk goes on to the next parameter; when
\* o < n < o + L it is reported as incomplete-parameter (0x02) if optional
\* and as required-parameter-missing if mandatory, and the walk ends.  The
\* report is a raise under strict parsing and an _exceptions entry otherwise.
\* Stated of every control sequence parse_ptoca hands to parse_syntax whose
\* syntax holds fixed-length parameters only.
C26_FixedLengthParameter ==
  WalksFixedLength =>
    /\ ThisCtrlSequence.st = WalkExpected.st
    /\ WalkExpected.st = "ok" =>
         ThisCtrlSequence.ctrl_sequence =
           DictSet(DictSet(WalkExpected.result,
                           Key(PNAME_CS_LENGTH), data[LengthPositionNow + 1]),
                   Key(PNAME_CS_TYPE), data[LengthPositionNow + 2])
    /\ WalkExpected.st = "raise" =>
         /\ ThisCtrlSequence.err = WalkExpected.err
         /\ ThisCtrlSequence.err.modca_code =
              IF ThisCtrlSequence.err.kind = "IncompleteParameterError" THEN 2 ELSE 4

\* C26 witness: a lenient call has parsed a DBR control sequence whose
\* optional RWIDTH is cut short, which leaves RLENGTH decoded and one
\* incomplete-parameter entry in _exceptions.
C26_Witness ==
  /\ call = "parse_ptoca"
  /\ ~parser_config.strict
  /\ data = <<43, 211, 5, FN_U_DBR>> \o SubSeq(DBR_DATA, 1, 3)
  /\ status = "returned"
  /\ Len(ctrl_sequences) = 1
  /\ Has(ctrl_sequences[1], "RLENGTH")
  /\ ~Has(ctrl_sequences[1], "RWIDTH")
  /\ Get(ctrl_sequences[1], PNAME_EXCEPTIONS)[1][1] = 2

\* Whether the field framed at f_pos is a whole field of the given type
\* with a FlagByte of 0, about to be read.
FieldOfType(type_id) ==
  /\ call = "stream"
  /\ status = "open"
  /\ FramedBody(f, f_pos).st = "ok"
  /\ Len(FramedBody(f, f_pos).v) >= 6
  /\ BigEndian(PySlice(FramedBody(f, f_pos).v, 0, 3)) = type_id
  /\ FramedBody(f, f_pos).v[4] = 0

\* The bytes of that field after its introducer, and the record of its
\* introducer: the four keys, SFLength being the body and its two bytes.
FieldData == PySlice(FramedBody(f, f_pos).v, 6, Len(FramedBody(f, f_pos).v))

IntroducerRecord ==
  DictSet(FourKeys(FramedBody(f, f_pos).v), Key(PNAME_SF_LENGTH),
          Len(FramedBody(f, f_pos).v) + 2)

\* The record of one MCC repeating group, from its six bytes.
MccRecord(g) ==
  DictSet(DictSet(DictSet(DictSet(EmptyDict,
    Key("Startnum"), 256 * g[1] + g[2]),
    Key("Stopnum"), 256 * g[3] + g[4]),
    Key("Reserved"), g[5]),
    Key("MMCid"), g[6])

\* C27: the repeating group of an MCC field takes six bytes, the sum of
\* its mandatory fixed-length parameters.  A body of 6 * m bytes gives a
\* RepeatingGroup list of m records, the k-th from the k-th six bytes, and
\* no RepeatingGroup key when m = 0; a body whose length is no multiple of 6
\* raises RepeatingGroupError under strict and under lenient parsing.
C27_MccGroups ==
  FieldOfType(AFP_SF_MCC) =>
    IF Len(FieldData) % 6 # 0
    THEN Raises(NextField, "RepeatingGroupError")
    ELSE /\ NextField.st = "ok"
         /\ NextField.sf =
              IF Len(FieldData) = 0 THEN IntroducerRecord
              ELSE DictSet(IntroducerRecord, Key(PNAME_REPEATING_GROUP),
                           [k \in 1..(Len(FieldData) \div 6) |->
                              MccRecord(PySlice(FieldData, 6 * (k - 1), 6 * k))])

\* C27 witness: an MCC field of two groups has been yielded, Startnum 1
\* before Startnum 3 as on the wire.
C27_Witness ==
  /\ call = "stream"
  /\ yielded # <<>>
  /\ Get(yielded[Len(yielded)], PNAME_SF_TYPE_ID) = AFP_SF_MCC
  /\ Has(yielded[Len(yielded)], PNAME_REPEATING_GROUP)
  /\ Len(Get(yielded[Len(yielded)], PNAME_REPEATING_GROUP)) = 2
  /\ Get(Get(yielded[Len(yielded)], PNAME_REPEATING_GROUP)[1], "Startnum") = 1
  /\ Get(Get(yielded[Len(yielded)], PNAME_REPEATING_GROUP)[2], "Startnum") = 3

\* What is asked of the field about to be read, given the list of group
\* records, or the error, that a claim expects after the record base: the
\* record holds the list under RepeatingGroup when the list is not empty (and
\* the field is yielded), or the field raises an error of the same class.
FieldGives(base, groups) ==
  /\ NextField.st = groups.st
  /\ groups.st = "ok" =>
       NextField.sf = IF groups.v = <<>> THEN base
                      ELSE DictSet(base, Key(PNAME_REPEATING_GROUP), groups.v)
  /\ groups.st = "raise" => NextField.err.kind = groups.err.kind

\* The repeating groups of buffer from position q on as C28 tells them:
\* each group is the RGLength bytes its first two bytes announce, decoded
\* from those bytes alone, and the next one starts right after them; an
\* RGLength of 0, or one above the bytes left, is a RepeatingGroupError.  An
\* error met while a group is decoded ends the walk with that error.  Two
\* bytes at least are left at q, or none.
RECURSIVE GroupsOfOwnLength(_, _, _, _)
GroupsOfOwnLength(buffer, group, config, q) ==
  IF q >= Len(buffer) THEN [st |-> "ok", v |-> <<>>]
  ELSE IF BigEndian(PySlice(buffer, q, q + 2)) = 0
  THEN Raise("RepeatingGroupError", "Repeating group length cannot be zero", "None")
  ELSE IF BigEndian(PySlice(buffer, q, q + 2)) > Len(buffer) - q
  THEN Raise("RepeatingGroupError", "Repeating group length longer than available data",
             "None")
  ELSE LET this == parse_syntax(PySlice(buffer, q, q + BigEndian(PySlice(buffer, q, q + 2))),
                                group, config, EmptyDict, EmptyCounters)
           rest == GroupsOfOwnLength(buffer, group, config,
                                     q + BigEndian(PySlice(buffer, q, q + 2)))
       IN IF this.st # "ok" THEN this
          ELSE IF rest.st # "ok" THEN rest
          ELSE [st |-> "ok", v |-> <<this.result>> \o rest.v]

\* Whether no group of buffer, from q on, starts on a single last byte.
RECURSIVE NoLengthCutShort(_, _)
NoLengthCutShort(buffer, q) ==
  \/ q >= Len(buffer)
  \/ /\ q + 2 <= Len(buffer)
     /\ \/ BigEndian(PySlice(buffer, q, q + 2)) = 0
        \/ NoLengthCutShort(buffer, q + BigEndian(PySlice(buffer, q, q + 2)))

\* C28: each repeating group of an MCF or MPO field takes the number of
\* bytes its own leading two-byte RGLength gives: the rest of the group is
\* decoded from the first RGLength bytes of the group only, the next group
\* starts RGLength bytes after this one, and an RGLength of 0 or above the
\* bytes left raises RepeatingGroupError under strict and under lenient
\* parsing.
C28_GroupsOfOwnLength ==
  \A t \in {AFP_SF_MCF, AFP_SF_MPO} :
    (FieldOfType(t) /\ NoLengthCutShort(FieldData, 0)) =>
      FieldGives(IntroducerRecord,
                 GroupsOfOwnLength(FieldData, AFP_SF_TYPES[t].syntax[1].group, parser_config, 0))

\* C28 witness: an MPO field of two groups of RGLength 5 has been yielded,
\* each group with the one triplet its five bytes hold.
C28_Witness ==
  /\ call = "stream"
  /\ yielded # <<>>
  /\ Get(yielded[Len(yielded)], PNAME_SF_TYPE_ID) = AFP_SF_MPO
  /\ Has(yielded[Len(yielded)], PNAME_REPEATING_GROUP)
  /\ Len(Get(yielded[Len(yielded)], PNAME_REPEATING_GROUP)) = 2
  /\ \A k \in 1..2 :
       /\ Get(Get(yielded[Len(yielded)], PNAME_REPEATING_GROUP)[k], "RGLength") = 5
       /\ Len(Get(Get(yielded[Len(yielded)], PNAME_REPEATING_GROUP)[k], PNAME_TRIPLETS)) = 1

\* The repeating groups of buffer from position q on, cut into slices of
\* size bytes, each decoded as one group record; a last slice shorter than
\* size is a RepeatingGroupError.  An error met while a slice is decoded ends
\* the walk with that error.
RECURSIVE GroupsOfSize(_, _, _, _, _)
GroupsOfSize(buffer, group, config, size, q) ==
  IF q >= Len(buffer) THEN [st |-> "ok", v |-> <<>>]
  ELSE IF q + size > Len(buffer)
  THEN Raise("RepeatingGroupError", "Repeating group length longer than available data",
             "None")
  ELSE LET this == parse_syntax(PySlice(buffer, q, q + size), group, config,
                                EmptyDict, EmptyCounters)
           rest == GroupsOfSize(buffer, group, config, size, q + size)
       IN IF this.st # "ok" THEN this
          ELSE IF rest.st # "ok" THEN rest
          ELSE [st |-> "ok", v |-> <<this.result>> \o rest.v]

\* The record of an MCF-1 field before its repeating group: the introducer,
\* RGLength and the three Reserved bytes.
Mcf1Base ==
  DictSet(DictSet(IntroducerRecord, Key("RGLength"), FieldData[1]),
          [name |-> "Reserved", n |-> 2], PySlice(FieldData, 1, 4))

\* The MCF-1 syntax with, after its repeating group, a one-byte parameter
\* at offset 0 and a second repeating group of one mandatory byte: the second
\* group starts at offset 1, and is cut by the length its own syntax gives
\* only if the length read for the first group no longer stands.
SYNTAX_MCF_1_TWO_GROUPS ==
  SYNTAX_FIELD_MCF_1 \o
    << ParameterType(0, 1, PTYPE_UBIN, "First", TRUE, "None"),
       RepeatingGroupType(<< ParameterType(0, 1, PTYPE_UBIN, "Byte", TRUE, "None") >>) >>

\* C29: in an MCF-1 field the one-byte RGLength v fixes the size of every
\* group: the bytes from offset 4 on are cut into slices of v bytes, each
\* decoded as one group record.  v = 0 raises RepeatingGroupError, and so
\* does a last slice shorter than v.  The length is forgotten once the group
\* has been processed: a group that came after it would be cut by the length
\* of its own syntax.
C29_Mcf1Slices ==
  (FieldOfType(AFP_SF_MCF_1) /\ Len(FieldData) >= 1) =>
    IF FieldData[1] = 0 THEN Raises(NextField, "RepeatingGroupError")
    ELSE Len(FieldData) >= 4 =>
      /\ FieldGives(Mcf1Base,
                    GroupsOfSize(FieldData, SYNTAX_FIELD_MCF_1[3].group, parser_config,
                                 FieldData[1], 4))
      /\ (NextField.st = "ok" /\ Has(NextField.sf, PNAME_REPEATING_GROUP)) =>
           LET two == parse_syntax(FieldData, SYNTAX_MCF_1_TWO_GROUPS, parser_config,
                                   EmptyDict, EmptyCounters)
           IN /\ two.st = "ok"
              /\ Len(GetNth(two.result, PNAME_REPEATING_GROUP, 2)) = Len(FieldData) - 1

\* C29 witness: an MCF-1 field with RGLength 28 and 56 bytes after offset 4
\* has been yielded with two group records, in the order of the wire.
C29_Witness ==
  /\ call = "stream"
  /\ yielded # <<>>
  /\ Get(yielded[Len(yielded)], PNAME_SF_TYPE_ID) = AFP_SF_MCF_1
  /\ Has(yielded[Len(yielded)], "RGLength")
  /\ Get(yielded[Len(yielded)], "RGLength") = 28
  /\ Has(yielded[Len(yielded)], PNAME_REPEATING_GROUP)
  /\ Len(Get(yielded[Len(yielded)], PNAME_REPEATING_GROUP)) = 2
  /\ Get(Get(yielded[Len(yielded)], PNAME_REPEATING_GROUP)[1], "CFLid") = 1
  /\ Get(Get(yielded[Len(yielded)], PNAME_REPEATING_GROUP)[2], "CFLid") = 3

\* The sum of the Tlength values of a list of triplets.
RECURSIVE SumOfTlength(_)
SumOfTlength(triplets) ==
  IF triplets = <<>> THEN 0
  ELSE Get(Head(triplets), PNAME_T_LENGTH) + SumOfTlength(Tail(triplets))

\* C30: in a call of parse_triplets whose start offset is not beyond the
\* end of the buffer, the read position is the start offset plus the Tlength
\* values of the triplets decoded so far and never passes the end of the
\* buffer; when the call returns, the position is the end of the buffer and
\* the Tlength values of the list returned sum to the bytes between the start
\* offset and the end.
C30_TlengthSum ==
  (call = "parse_triplets" /\ offset <= Len(data)) =>
    /\ p = offset + SumOfTlength(triplet_list)
    /\ p <= Len(data)
    /\ status = "returned" =>
         /\ p = Len(data)
         /\ SumOfTlength(triplet_list) = Len(data) - offset

\* C30 witness: a call from offset 0 has returned a list of two triplets
\* whose Tlength values differ.
C30_Witness ==
  /\ call = "parse_triplets"
  /\ offset = 0
  /\ status = "returned"
  /\ Len(triplet_list) = 2
  /\ Get(triplet_list[1], PNAME_T_LENGTH) # Get(triplet_list[2], PNAME_T_LENGTH)

====
